---------------------------- MODULE Spec2Model ----------------------------
(***************************************************************************)
(* Peacock: title normalisation and metadata update engine.                *)
(*                                                                         *)
(* Strings are sequences of one-character strings, so that prefix tests,   *)
(* path normalisation and the filename rules are computed character by     *)
(* character as the Python code computes them.  An optional value (a tag   *)
(* that may be None) is <<>> for None and <<s>> for the string s.          *)
(***************************************************************************)
EXTENDS Integers, Sequences, FiniteSets, TLC

VARIABLES
    disk,            \* the tag containers on disk: canonical path -> optional title
    disk0,           \* the containers as they were when the current batch started
    accessed,        \* Tag Accessor calls of the current operation, in order
    pc,              \* position of the running operation
    ret,             \* value returned by the last update_one call
    raised,          \* TRUE iff an exception propagated out of the operation
    updates,         \* update_multiple_titles: its argument
    idx,             \* update_multiple_titles: number of instructions processed
    results,         \* update_multiple_titles: the report being built
    config,          \* peacock_server.config: optional default_path
    audio_metadata,  \* peacock_server.audio_metadata: the in-memory mirror
    request,         \* the request being handled by the serving layer
    response,        \* the response of the last handled request
    selected_updates,\* apply_title_suggestions: data['updates']
    sidx,            \* apply_title_suggestions: number of entries processed
    sresults,        \* apply_title_suggestions: results / success_count / error_count
    threads,         \* concurrent update_title requests: per thread its position and locals
    metadata_list,   \* get_suggestions_for_library: its argument
    spos,            \* get_suggestions_for_library: number of records processed
    suggestions,     \* get_suggestions_for_library: the list being built
    tree,            \* the files and directories a scan walks: path -> entry
    scan_call,       \* scan_directory: which implementation, its arguments
    audio_files,     \* scan_directory: the candidates it found
    scan_idx,        \* scan_directory: number of candidates processed
    scanned          \* scan_directory: the metadata_list being built

vars == <<disk, disk0, accessed, pc, ret, raised, updates, idx, results,
          config, audio_metadata, request, response, selected_updates, sidx,
          sresults, threads, metadata_list, spos, suggestions,
          tree, scan_call, audio_files, scan_idx, scanned>>

updaterVars == <<updates, idx, results>>
suggestVars == <<metadata_list, spos, suggestions>>
scanVars == <<tree, scan_call, audio_files, scan_idx, scanned>>
serverVars == <<config, audio_metadata, request, response, selected_updates,
                sidx, sresults>>

-----------------------------------------------------------------------------
(* Bounds of the model *)

MaxUpdates == 3
MaxRecords == 2

-----------------------------------------------------------------------------
(* Optional values and strings *)

None == <<>>
Some(s) == <<s>>
Truthy(x) == x # None /\ x # Some(<<>>)

\* str.startswith
startswith(s, prefix) ==
    /\ Len(prefix) <= Len(s)
    /\ \A k \in 1..Len(prefix) : s[k] = prefix[k]

RECURSIVE SplitFrom(_, _, _, _, _)
SplitFrom(s, sep, k, cur, acc) ==
    IF k > Len(s) THEN Append(acc, cur)
    ELSE IF s[k] = sep THEN SplitFrom(s, sep, k + 1, <<>>, Append(acc, cur))
    ELSE SplitFrom(s, sep, k + 1, Append(cur, s[k]), acc)

\* str.split(sep)
split(s, sep) == SplitFrom(s, sep, 1, <<>>, <<>>)

RECURSIVE JoinFrom(_, _, _)
JoinFrom(comps, sep, k) ==
    IF k > Len(comps) THEN <<>>
    ELSE IF k = Len(comps) THEN comps[k]
    ELSE comps[k] \o <<sep>> \o JoinFrom(comps, sep, k + 1)

\* sep.join(comps)
join(comps, sep) == JoinFrom(comps, sep, 1)

-----------------------------------------------------------------------------
(* The directories and files of the model's runs *)

\* the working directory of the process
Cwd == <<"/", "w">>

DirM == <<"/", "w", "/", "m">>
DirSibling == <<"/", "w", "/", "m", "2">>
NameA == <<"a", ".", "m", "p", "3">>
NameB == <<"b", ".", "m", "p", "3">>
NameC == <<"c", ".", "m", "4", "a">>
FileA == DirM \o <<"/">> \o NameA
FileB == DirM \o <<"/">> \o NameB
FileC == DirM \o <<"/">> \o NameC
FileS == DirSibling \o <<"/">> \o NameA
FileMissing == DirM \o <<"/", "z", ".", "m", "p", "3">>
FileOutside == <<"/", "x", "/">> \o NameA

\* the audio files that exist, by canonical path
DiskFiles == {FileA, FileB, FileC, FileS}

\* the root directory as the configuration can spell it
RootForms == { DirM, <<"m">>, <<"/", "w", "/", "/", "m">> }

\* the file_path strings a request can carry: empty, absolute, relative,
\* in a sibling directory, not normalised, of a file that does not exist,
\* outside the working directory
RequestPathStrings ==
    { <<>>, FileA, <<"m", "/">> \o NameA, FileB, FileC, FileS,
      DirM \o <<"/", ".", ".", "/", "m", "2", "/">> \o NameA, FileMissing,
      FileOutside }

-----------------------------------------------------------------------------
(* POSIX paths: os.path.isabs, join, normpath, abspath, basename *)

Dot == <<".">>
DotDot == <<".", ".">>

isabs(p) == Len(p) > 0 /\ p[1] = "/"

path_join(a, b) ==
    IF isabs(b) THEN b
    ELSE IF a = <<>> \/ a[Len(a)] = "/" THEN a \o b
    ELSE a \o <<"/">> \o b

RECURSIVE NormComps(_, _, _, _)
NormComps(comps, k, initial_slashes, new_comps) ==
    IF k > Len(comps) THEN new_comps
    ELSE LET comp == comps[k] IN
         IF comp = <<>> \/ comp = Dot
         THEN NormComps(comps, k + 1, initial_slashes, new_comps)
         ELSE IF \/ comp # DotDot
                 \/ (initial_slashes = 0 /\ new_comps = <<>>)
                 \/ (new_comps # <<>> /\ new_comps[Len(new_comps)] = DotDot)
         THEN NormComps(comps, k + 1, initial_slashes, Append(new_comps, comp))
         ELSE IF new_comps # <<>>
         THEN NormComps(comps, k + 1, initial_slashes,
                        SubSeq(new_comps, 1, Len(new_comps) - 1))
         ELSE NormComps(comps, k + 1, initial_slashes, new_comps)

normpath(path) ==
    IF path = <<>> THEN Dot
    ELSE LET initial_slashes ==
                 IF ~startswith(path, <<"/">>) THEN 0
                 ELSE IF startswith(path, <<"/", "/">>)
                         /\ ~startswith(path, <<"/", "/", "/">>) THEN 2
                 ELSE 1
             comps == NormComps(split(path, "/"), 1, initial_slashes, <<>>)
             joined == join(comps, "/")
             out == IF initial_slashes = 2 THEN <<"/", "/">> \o joined
                    ELSE IF initial_slashes = 1 THEN <<"/">> \o joined
                    ELSE joined
         IN  IF out = <<>> THEN Dot ELSE out

abspath_compute(p) == normpath(IF isabs(p) THEN p ELSE path_join(Cwd, p))

\* abspath_compute, evaluated once for the paths that recur in the runs
FrequentPaths ==
    DiskFiles \cup RootForms \cup RequestPathStrings
    \cup {path_join(r, n) : r \in RootForms, n \in {NameA, NameB, NameC}}
abspath_table == [p \in FrequentPaths |-> abspath_compute(p)]

\* os.path.abspath
abspath(p) ==
    IF p \in FrequentPaths THEN abspath_table[p] ELSE abspath_compute(p)

basename(p) ==
    LET comps == split(p, "/") IN comps[Len(comps)]

-----------------------------------------------------------------------------
(* The file system and the Tag Accessor (mutagen), an external capability *)

TitleOld == <<"o", "l", "d">>
TitleN1 == <<"N", "1">>
TitleN2 == <<"N", "2">>
InitTitles == {None, Some(TitleOld)}

\* What one open/set/save of a tag container can do: succeed, find no
\* supported container (File() returns None), fail to open, fail to save.
Outcomes == {"ok", "none", "open_error", "save_error"}

\* A file that does not exist cannot be opened; one that exists is opened
\* and then has no supported container, fails to save, or is written.
FileOutcomes(d, file_path) ==
    IF abspath(file_path) \in DOMAIN d THEN Outcomes \ {"open_error"}
    ELSE {"open_error"}

\* audio[title] = new_title; audio.save()
TagWrite(d, file_path, new_title) ==
    [d EXCEPT ![abspath(file_path)] = Some(new_title)]

Call(file_path, new_title, o) ==
    [file_path |-> file_path, new_title |-> new_title, outcome |-> o]

-----------------------------------------------------------------------------
(* lib/metadata_manager.py: MetadataManager.update_title                   *)

\* the body of the try block: either returns a value or raises
update_title_try(d, file_path, new_title, o) ==
    IF o = "open_error" THEN [raised |-> TRUE, ret |-> FALSE, disk |-> d]
    ELSE IF o = "none" THEN [raised |-> FALSE, ret |-> FALSE, disk |-> d]
    ELSE IF o = "save_error" THEN [raised |-> TRUE, ret |-> FALSE, disk |-> d]
    ELSE [raised |-> FALSE, ret |-> TRUE, disk |-> TagWrite(d, file_path, new_title)]

\* mutant: the except clause re-raises
update_title_reraise(d, file_path, new_title, o) ==
    update_title_try(d, file_path, new_title, o)

\* try ... except Exception: return False
update_title(d, file_path, new_title, o) ==
    LET r == update_title_try(d, file_path, new_title, o) IN
    IF r.raised THEN [raised |-> FALSE, ret |-> FALSE, disk |-> r.disk] ELSE r

-----------------------------------------------------------------------------
(* peacock_server.py: update_file_metadata                                 *)

MsgCouldNotOpen == "Could not open audio file"
MsgUpdated == "Title updated successfully"

update_file_metadata_try(d, file_path, new_title, o) ==
    IF o = "open_error"
    THEN [raised |-> TRUE, success |-> FALSE, message |-> o, disk |-> d]
    ELSE IF o = "none"
    THEN [raised |-> FALSE, success |-> FALSE, message |-> MsgCouldNotOpen, disk |-> d]
    ELSE IF o = "save_error"
    THEN [raised |-> TRUE, success |-> FALSE, message |-> o, disk |-> d]
    ELSE [raised |-> FALSE, success |-> TRUE, message |-> MsgUpdated,
          disk |-> TagWrite(d, file_path, new_title)]

\* try ... except Exception as e: return False, str(e)
update_file_metadata(d, file_path, new_title, o) ==
    LET r == update_file_metadata_try(d, file_path, new_title, o) IN
    IF r.raised THEN [r EXCEPT !.raised = FALSE, !.success = FALSE] ELSE r

-----------------------------------------------------------------------------
(* lib/metadata_manager.py: MetadataManager.update_multiple_titles         *)

Instruction(file_path, new_title) ==
    [file_path |-> file_path, new_title |-> new_title]

EmptyResults == [success_count |-> 0, failed_count |-> 0, errors |-> <<>>]

\* results['success_count'] += 1
count_success(res, update) ==
    [res EXCEPT !.success_count = @ + 1]

\* mutant: a failure is recorded in errors but not counted
count_failure_uncounted(res, update) ==
    [res EXCEPT !.errors = Append(@, [file |-> update.file_path,
                                      error |-> "Failed to update"])]

\* results['failed_count'] += 1; results['errors'].append({...})
count_failure(res, update) ==
    [res EXCEPT !.failed_count = @ + 1,
                !.errors = Append(@, [file |-> update.file_path,
                                      error |-> "Failed to update"])]

\* The files of the updater's runs, and its inputs: paths as the caller wrote them
UpdaterFiles == {FileA, FileB}
UpdaterPaths == {FileA, FileB, FileMissing}
UpdaterTitles == {TitleN1, TitleN2}
UpdaterInstructions ==
    {Instruction(p, t) : p \in UpdaterPaths, t \in UpdaterTitles}

RECURSIVE SeqsUpTo(_, _)
SeqsUpTo(S, n) ==
    IF n = 0 THEN {<<>>}
    ELSE LET shorter == SeqsUpTo(S, n - 1) IN
         shorter \cup {Append(q, x) : q \in {r \in shorter : Len(r) = n - 1}, x \in S}

\* mutant: the loop walks the instructions from the last to the first
current_update_reversed(us, i) == us[Len(us) - i]

\* for update in updates: the instruction of iteration i + 1
current_update(us, i) == us[i + 1]

\* a caller invokes update_title once
CallUpdateTitle ==
    /\ pc = "idle"
    /\ \E p \in UpdaterPaths, t \in UpdaterTitles :
         \E o \in FileOutcomes(disk, p) :
           LET r == update_title(disk, p, t, o) IN
           /\ disk' = r.disk
           /\ ret' = [success |-> r.ret, message |-> ""]
           /\ raised' = r.raised
           /\ accessed' = <<Call(p, t, o)>>
    /\ pc' = "done"
    /\ UNCHANGED <<scanVars, suggestVars, disk0, updaterVars, serverVars, threads>>

\* a caller invokes update_file_metadata once
CallUpdateFileMetadata ==
    /\ pc = "idle"
    /\ \E p \in UpdaterPaths, t \in UpdaterTitles :
         \E o \in FileOutcomes(disk, p) :
           LET r == update_file_metadata(disk, p, t, o) IN
           /\ disk' = r.disk
           /\ ret' = [success |-> r.success, message |-> r.message]
           /\ raised' = r.raised
           /\ accessed' = <<Call(p, t, o)>>
    /\ pc' = "done"
    /\ UNCHANGED <<scanVars, suggestVars, disk0, updaterVars, serverVars, threads>>

\* a caller invokes update_multiple_titles(us): results initialised
UpdateMultipleCall ==
    /\ pc = "idle"
    /\ \E us \in SeqsUpTo(UpdaterInstructions, MaxUpdates) : updates' = us
    /\ idx' = 0
    /\ results' = EmptyResults
    /\ accessed' = <<>>
    /\ disk0' = disk
    /\ pc' = "loop"
    /\ UNCHANGED <<scanVars, suggestVars, disk, ret, raised, serverVars, threads>>

\* one iteration of: for update in updates
UpdateMultipleStep ==
    /\ pc = "loop"
    /\ idx < Len(updates)
    /\ LET update == current_update(updates, idx) IN
       \E o \in FileOutcomes(disk, update.file_path) :
         LET r == update_title(disk, update.file_path, update.new_title, o) IN
         /\ accessed' = Append(accessed, Call(update.file_path, update.new_title, o))
         /\ disk' = r.disk
         /\ IF r.raised
            THEN /\ raised' = TRUE
                 /\ pc' = "raised"
                 /\ UNCHANGED <<scanVars, suggestVars, idx, results>>
            ELSE /\ results' = IF r.ret THEN count_success(results, update)
                               ELSE count_failure(results, update)
                 /\ idx' = idx + 1
                 /\ UNCHANGED <<scanVars, suggestVars, raised, pc>>
    /\ UNCHANGED <<scanVars, suggestVars, disk0, ret, updates, serverVars, threads>>

\* return results
UpdateMultipleReturn ==
    /\ pc = "loop"
    /\ idx = Len(updates)
    /\ pc' = "returned"
    /\ UNCHANGED <<scanVars, suggestVars, disk, disk0, accessed, ret, raised, updaterVars, serverVars, threads>>

NoThreads == <<>>
EmptyServerResults == [results |-> <<>>, success_count |-> 0, error_count |-> 0]
NoRequest == [kind |-> "none"]
NoResponse == [status |-> 0]

\* no scan is running
NoScanCall == [impl |-> "none"]

InitNoScan ==
    /\ tree = [f \in {} |-> None]
    /\ scan_call = NoScanCall
    /\ audio_files = <<>>
    /\ scan_idx = 0
    /\ scanned = <<>>

InitCommon(disks) ==
    /\ InitNoScan
    /\ disk \in disks
    /\ disk0 = disk
    /\ accessed = <<>>
    /\ pc = "idle"
    /\ ret = [success |-> FALSE, message |-> ""]
    /\ raised = FALSE
    /\ updates = <<>>
    /\ idx = 0
    /\ results = EmptyResults
    /\ metadata_list = <<>>
    /\ spos = 0
    /\ suggestions = <<>>

InitUpdater ==
    /\ InitCommon([UpdaterFiles -> InitTitles])
    /\ config = None
    /\ audio_metadata = <<>>
    /\ request = NoRequest
    /\ response = NoResponse
    /\ selected_updates = <<>>
    /\ sidx = 0
    /\ sresults = EmptyServerResults
    /\ threads = NoThreads

NextUpdater ==
    \/ CallUpdateTitle
    \/ CallUpdateFileMetadata
    \/ UpdateMultipleCall
    \/ UpdateMultipleStep
    \/ UpdateMultipleReturn

SpecUpdater == InitUpdater /\ [][NextUpdater]_vars

-----------------------------------------------------------------------------
(* peacock.py: PeacockkMetadataExtractor.scan_directory, as main() of the  *)
(* server runs it on config['default_path']                                *)

\* characters in code point order
Ascii == <<" ", ",", "-", ".", "/",
           "0", "1", "2", "3", "4", "5", "6", "7", "8", "9",
           "A", "B", "C", "D", "E", "F", "G", "H", "I", "J", "K", "L", "M",
           "N", "O", "P", "Q", "R", "S", "T", "U", "V", "W", "X", "Y", "Z",
           "_",
           "a", "b", "c", "d", "e", "f", "g", "h", "i", "j", "k", "l", "m",
           "n", "o", "p", "q", "r", "s", "t", "u", "v", "w", "x", "y", "z">>

ord(c) == CHOOSE k \in 1..Len(Ascii) : Ascii[k] = c

\* s < t for Python strings
RECURSIVE StrLessFrom(_, _, _)
StrLessFrom(s, t, k) ==
    IF k > Len(t) THEN FALSE
    ELSE IF k > Len(s) THEN TRUE
    ELSE IF s[k] # t[k] THEN ord(s[k]) < ord(t[k])
    ELSE StrLessFrom(s, t, k + 1)

StrLess(s, t) == StrLessFrom(s, t, 1)

\* sorted(S) for a set of strings
RECURSIVE sorted(_)
sorted(S) ==
    IF S = {} THEN <<>>
    ELSE LET least == CHOOSE x \in S : \A y \in S \ {x} : StrLess(x, y)
         IN  <<least>> \o sorted(S \ {least})

\* Path(file).suffix.lower() for the lower-case names of the model
suffix(name) ==
    LET parts == split(name, ".") IN
    IF Len(parts) < 2 \/ parts[Len(parts)] = <<>>
       \/ Len(name) - Len(parts[Len(parts)]) - 1 = 0 THEN <<>>
    ELSE <<".">> \o parts[Len(parts)]

audio_extensions ==
    { <<".", "m", "4", "a">>, <<".", "m", "p", "3">>, <<".", "w", "a", "v">>,
      <<".", "a", "a", "c">>, <<".", "f", "l", "a", "c">>, <<".", "o", "g", "g">>,
      <<".", "m", "4", "v">>, <<".", "o", "p", "u", "s">> }

\* os.walk(directory_path): every file below the directory, named by the
\* directory as it was written joined with the path below it
walk(d, directory_path) ==
    LET top == abspath(directory_path) \o <<"/">> IN
    { path_join(directory_path, SubSeq(f, Len(top) + 1, Len(f))) :
        f \in {g \in DOMAIN d : startswith(g, top)} }

\* extract_metadata: the record of one file
extract_metadata(d, file_path) ==
    [filename |-> basename(file_path),
     file_path |-> file_path,
     title |-> d[abspath(file_path)],
     artist |-> None]

\* os.path.exists(path): a file, or a directory that holds one
exists(d, path) ==
    /\ path # <<>>
    /\ \E f \in DOMAIN d :
          f = abspath(path) \/ startswith(f, abspath(path) \o <<"/">>)

scan_directory(d, directory_path) ==
    IF ~exists(d, directory_path) THEN <<>>
    ELSE LET found == {f \in walk(d, directory_path) :
                          suffix(basename(f)) \in audio_extensions}
             order == sorted(found)
         IN  [k \in 1..Len(order) |-> extract_metadata(d, order[k])]

-----------------------------------------------------------------------------
(* peacock_server.py: the serving layer, one request at a time             *)

\* config.get('default_path', '')
default_path(cfg) == IF cfg = None THEN <<>> ELSE cfg[1]

\* the string of an optional request field
unwrap(x) == IF x = None THEN <<>> ELSE x[1]

\* mutant: only the path is required
missing_fields_path_only(file_path, new_title) ==
    ~Truthy(file_path)

\* not file_path or not new_title
missing_fields(file_path, new_title) ==
    ~Truthy(file_path) \/ ~Truthy(new_title)

\* file_path.startswith(base_path), both made absolute
within_base(cfg, file_path) ==
    startswith(abspath(file_path), abspath(default_path(cfg)))

\* mutant: the title is set on every record, matching or not
set_title_from_every(meta, k, file_path, new_title) ==
    [j \in DOMAIN meta |-> [meta[j] EXCEPT !.title = Some(new_title)]]

\* for item in audio_metadata: if item['file_path'] == file_path:
\*     item['title'] = new_title; break
RECURSIVE set_title_from(_, _, _, _)
set_title_from(meta, k, file_path, new_title) ==
    IF k > Len(meta) THEN meta
    ELSE IF meta[k].file_path = file_path
         THEN [meta EXCEPT ![k].title = Some(new_title)]
         ELSE set_title_from(meta, k + 1, file_path, new_title)

\* mutant: the mirror is updated whatever the write returned
mirror_after_always(meta, success, file_path, new_title) ==
    set_title_from(meta, 1, file_path, new_title)

\* if success: update our in-memory metadata
mirror_after(meta, success, file_path, new_title) ==
    IF success THEN set_title_from(meta, 1, file_path, new_title) ELSE meta

\* the configuration main() loads: default_path is a spelling of the root
\* directory, or is empty
Configs == {Some(r) : r \in RootForms \cup {<<>>}}

ServerDisk ==
    [f \in DiskFiles |-> IF f = FileB THEN Some(TitleOld) ELSE None]

\* file paths and titles as a request can carry them
RequestPaths == {None} \cup {Some(p) : p \in RequestPathStrings}
RequestTitles == { None, Some(<<>>), Some(TitleN1), Some(TitleN2) }

UpdateTitleRequest(file_path, new_title) ==
    [kind |-> "update_title", file_path |-> file_path, new_title |-> new_title]

\* POST /api/update_title
update_title_handler ==
    /\ pc = "idle"
    /\ \E fp \in RequestPaths, nt \in RequestTitles :
         /\ request' = UpdateTitleRequest(fp, nt)
         /\ IF missing_fields(fp, nt)
            THEN /\ response' = [status |-> 400, success |-> FALSE,
                                 error |-> "Missing file_path or new_title"]
                 /\ accessed' = <<>>
                 /\ UNCHANGED <<scanVars, suggestVars, disk, audio_metadata, raised>>
            ELSE LET file_path == abspath(unwrap(fp))
                     new_title == unwrap(nt)
                 IN  IF ~within_base(config, file_path)
                     THEN /\ response' = [status |-> 403, success |-> FALSE,
                                          error |-> "Invalid file path"]
                          /\ accessed' = <<>>
                          /\ UNCHANGED <<scanVars, suggestVars, disk, audio_metadata, raised>>
                     ELSE \E o \in FileOutcomes(disk, file_path) :
                            LET r == update_file_metadata(disk, file_path, new_title, o) IN
                            /\ accessed' = <<Call(file_path, new_title, o)>>
                            /\ disk' = r.disk
                            /\ raised' = r.raised
                            /\ audio_metadata' =
                                   mirror_after(audio_metadata, r.success,
                                                file_path, new_title)
                            /\ response' =
                                   IF r.success
                                   THEN [status |-> 200, success |-> TRUE,
                                         message |-> r.message,
                                         new_title |-> new_title]
                                   ELSE [status |-> 500, success |-> FALSE,
                                         error |-> r.message]
    /\ pc' = "done"
    /\ UNCHANGED <<scanVars, suggestVars, disk0, ret, updaterVars, config, selected_updates, sidx,
                   sresults, threads>>

\* the entries a batch request can carry
ServerInstructions ==
    {Instruction(Some(p), Some(TitleN1)) :
        p \in {FileA, FileB, FileC, FileS, FileOutside}}
    \cup { Instruction(Some(FileA), Some(TitleN2)),
           Instruction(None, Some(TitleN1)),
           Instruction(Some(FileA), Some(<<>>)) }

\* one iteration of: for update in selected_updates
apply_iteration(cfg, d, meta, sres, update, o) ==
    IF missing_fields(update.file_path, update.new_title)
    THEN \* continue
         [disk |-> d, audio_metadata |-> meta, sresults |-> sres,
          calls |-> <<>>, raised |-> FALSE]
    ELSE LET file_path == abspath(unwrap(update.file_path))
             new_title == unwrap(update.new_title)
         IN  IF ~within_base(cfg, file_path)
             THEN [disk |-> d, audio_metadata |-> meta,
                   sresults |->
                       [sres EXCEPT
                           !.results = Append(@, [file_path |-> file_path,
                                                  success |-> FALSE,
                                                  error |-> "Invalid file path"]),
                           !.error_count = @ + 1],
                   calls |-> <<>>, raised |-> FALSE]
             ELSE LET r == update_file_metadata(d, file_path, new_title, o) IN
                  [disk |-> r.disk,
                   audio_metadata |->
                       mirror_after(meta, r.success, file_path, new_title),
                   sresults |->
                       [sres EXCEPT
                           !.results =
                               Append(@, [file_path |-> file_path,
                                          success |-> r.success,
                                          message |->
                                              IF r.success THEN <<r.message>>
                                              ELSE <<"Error: ", r.message>>]),
                           !.success_count = IF r.success THEN @ + 1 ELSE @,
                           !.error_count = IF r.success THEN @ ELSE @ + 1],
                   calls |-> <<Call(file_path, new_title, o)>>,
                   raised |-> r.raised]

\* the outcomes the Tag Accessor can have for an entry that reaches it
EntryOutcomes(cfg, d, update) ==
    IF missing_fields(update.file_path, update.new_title) THEN {"none"}
    ELSE IF ~within_base(cfg, abspath(unwrap(update.file_path))) THEN {"none"}
    ELSE FileOutcomes(d, abspath(unwrap(update.file_path)))

\* POST /api/apply_title_suggestions: the request arrives
apply_title_suggestions_call ==
    /\ pc = "idle"
    /\ \E us \in SeqsUpTo(ServerInstructions, MaxUpdates) : selected_updates' = us
    /\ request' = [kind |-> "apply_title_suggestions"]
    /\ sidx' = 0
    /\ sresults' = EmptyServerResults
    /\ accessed' = <<>>
    /\ pc' = "apply"
    /\ UNCHANGED <<scanVars, suggestVars, disk, disk0, ret, raised, updaterVars, config, audio_metadata,
                   response, threads>>

\* ... one iteration of its loop
apply_title_suggestions_step ==
    /\ pc = "apply"
    /\ sidx < Len(selected_updates)
    /\ LET update == selected_updates[sidx + 1] IN
       \E o \in EntryOutcomes(config, disk, update) :
         LET r == apply_iteration(config, disk, audio_metadata, sresults, update, o) IN
         /\ disk' = r.disk
         /\ audio_metadata' = r.audio_metadata
         /\ sresults' = r.sresults
         /\ accessed' = accessed \o r.calls
         /\ raised' = r.raised
         /\ IF r.raised THEN pc' = "raised" /\ sidx' = sidx
            ELSE pc' = pc /\ sidx' = sidx + 1
    /\ UNCHANGED <<scanVars, suggestVars, disk0, ret, updaterVars, config, request, response,
                   selected_updates, threads>>

\* ... return jsonify({...})
apply_title_suggestions_return ==
    /\ pc = "apply"
    /\ sidx = Len(selected_updates)
    /\ response' = [status |-> 200, success |-> TRUE,
                    results |-> sresults.results,
                    success_count |-> sresults.success_count,
                    error_count |-> sresults.error_count]
    /\ pc' = "done"
    /\ UNCHANGED <<scanVars, suggestVars, disk, disk0, accessed, ret, raised, updaterVars, config,
                   audio_metadata, request, selected_updates, sidx, sresults,
                   threads>>

InitServerCommon ==
    /\ InitCommon({ServerDisk})
    /\ config \in Configs
    /\ audio_metadata = scan_directory(disk, default_path(config))
    /\ request = NoRequest
    /\ response = NoResponse
    /\ selected_updates = <<>>
    /\ sidx = 0
    /\ sresults = EmptyServerResults
    /\ threads = NoThreads

InitServer == InitServerCommon

NextServer ==
    \/ update_title_handler
    \/ apply_title_suggestions_call
    \/ apply_title_suggestions_step
    \/ apply_title_suggestions_return

SpecServer == InitServer /\ [][NextServer]_vars

-----------------------------------------------------------------------------
(* peacock_server.py: update_title handled by concurrent threads.  The     *)
(* handler takes no lock: between its write to the file and its update of  *)
(* the mirror another request's thread can run.                            *)

Threads == {"t1", "t2"}
ConcurrentPaths == {FileA, FileB}
ConcurrentTitles == {TitleN1, TitleN2}

ThreadStart == [pc |-> "start", file_path |-> <<>>, new_title |-> <<>>, status |-> 0]

\* data = request.json ... the checks before the write
thread_receive(t) ==
    /\ threads[t].pc = "start"
    /\ \E fp \in ConcurrentPaths, nt \in ConcurrentTitles :
         IF missing_fields(Some(fp), Some(nt))
         THEN threads' = [threads EXCEPT ![t] = [@ EXCEPT !.pc = "done", !.status = 400]]
         ELSE IF ~within_base(config, abspath(fp))
         THEN threads' = [threads EXCEPT ![t] = [@ EXCEPT !.pc = "done", !.status = 403]]
         ELSE threads' = [threads EXCEPT ![t] =
                             [@ EXCEPT !.pc = "write", !.file_path = abspath(fp),
                                       !.new_title = nt]]
    /\ UNCHANGED <<scanVars, suggestVars, disk, disk0, accessed, pc, ret, raised, updaterVars, serverVars>>

\* success, message = update_file_metadata(file_path, new_title)
thread_write(t) ==
    /\ threads[t].pc = "write"
    /\ \E o \in FileOutcomes(disk, threads[t].file_path) :
         LET r == update_file_metadata(disk, threads[t].file_path,
                                       threads[t].new_title, o) IN
         /\ disk' = r.disk
         /\ accessed' = Append(accessed, Call(threads[t].file_path,
                                              threads[t].new_title, o))
         /\ threads' = [threads EXCEPT ![t] =
                           IF r.success THEN [@ EXCEPT !.pc = "mirror"]
                           ELSE [@ EXCEPT !.pc = "done", !.status = 500]]
    /\ UNCHANGED <<scanVars, suggestVars, disk0, pc, ret, raised, updaterVars, serverVars>>

\* for item in audio_metadata: ... item['title'] = new_title; return 200
thread_mirror(t) ==
    /\ threads[t].pc = "mirror"
    /\ audio_metadata' = mirror_after(audio_metadata, TRUE, threads[t].file_path,
                                      threads[t].new_title)
    /\ threads' = [threads EXCEPT ![t] = [@ EXCEPT !.pc = "done", !.status = 200]]
    /\ UNCHANGED <<scanVars, suggestVars, disk, disk0, accessed, pc, ret, raised, updaterVars, config,
                   request, response, selected_updates, sidx, sresults>>

InitConcurrent ==
    /\ InitCommon([DiskFiles -> InitTitles])
    /\ config = Some(DirM)
    /\ audio_metadata = scan_directory(disk, default_path(config))
    /\ request = NoRequest
    /\ response = NoResponse
    /\ selected_updates = <<>>
    /\ sidx = 0
    /\ sresults = EmptyServerResults
    /\ threads = [t \in Threads |-> ThreadStart]

NextConcurrent ==
    \E t \in Threads :
        \/ thread_receive(t)
        \/ thread_write(t)
        \/ thread_mirror(t)

SpecConcurrent == InitConcurrent /\ [][NextConcurrent]_vars

-----------------------------------------------------------------------------
(* lib/title_suggester.py: TitleSuggester                                  *)

Digits == <<"0", "1", "2", "3", "4", "5", "6", "7", "8", "9">>
LowerCase == <<"a", "b", "c", "d", "e", "f", "g", "h", "i", "j", "k", "l", "m",
               "n", "o", "p", "q", "r", "s", "t", "u", "v", "w", "x", "y", "z">>
UpperCase == <<"A", "B", "C", "D", "E", "F", "G", "H", "I", "J", "K", "L", "M",
               "N", "O", "P", "Q", "R", "S", "T", "U", "V", "W", "X", "Y", "Z">>

\* \d and \s of the re module, over the characters of the model
IsDigit(c) == \E k \in 1..Len(Digits) : Digits[k] = c
IsSpace(c) == c \in {" ", "\t", "\n"}

\* int(c) for a digit
DigitVal(c) == (CHOOSE k \in 1..Len(Digits) : Digits[k] = c) - 1

\* c.upper()
upper(c) ==
    IF \E k \in 1..Len(LowerCase) : LowerCase[k] = c
    THEN UpperCase[CHOOSE k \in 1..Len(LowerCase) : LowerCase[k] = c]
    ELSE c

\* \d{n} matches at position k of s
DigitsAt(s, k, n) ==
    /\ k + n - 1 <= Len(s)
    /\ \A j \in k..(k + n - 1) : IsDigit(s[j])

\* filename.rsplit('.', 1)[0]
rsplit_stem(filename) ==
    LET dots == {k \in 1..Len(filename) : filename[k] = "."} IN
    IF dots = {} THEN filename
    ELSE SubSeq(filename, 1, (CHOOSE k \in dots : \A j \in dots : j <= k) - 1)

\* re.match(r'^\d{8}[\s_-]?\d{6}', title)
matches_timestamp(title) ==
    /\ DigitsAt(title, 1, 8)
    /\ \/ DigitsAt(title, 9, 6)
       \/ /\ Len(title) >= 9
          /\ (IsSpace(title[9]) \/ title[9] = "_" \/ title[9] = "-")
          /\ DigitsAt(title, 10, 6)

\* mutant: a title of exactly 3 characters counts as very short
is_generic_title_short3(title, filename) ==
    \/ title = rsplit_stem(filename)
    \/ matches_timestamp(title)
    \/ Len(title) <= 3

\* _is_generic_title
is_generic_title(title, filename) ==
    \/ title = rsplit_stem(filename)
    \/ matches_timestamp(title)
    \/ Len(title) < 3

MonthNames ==
    << <<"J", "a", "n", "u", "a", "r", "y">>,
       <<"F", "e", "b", "r", "u", "a", "r", "y">>,
       <<"M", "a", "r", "c", "h">>,
       <<"A", "p", "r", "i", "l">>,
       <<"M", "a", "y">>,
       <<"J", "u", "n", "e">>,
       <<"J", "u", "l", "y">>,
       <<"A", "u", "g", "u", "s", "t">>,
       <<"S", "e", "p", "t", "e", "m", "b", "e", "r">>,
       <<"O", "c", "t", "o", "b", "e", "r">>,
       <<"N", "o", "v", "e", "m", "b", "e", "r">>,
       <<"D", "e", "c", "e", "m", "b", "e", "r">> >>

is_leap(year) ==
    year % 4 = 0 /\ (year % 100 # 0 \/ year % 400 = 0)

\* mutant: February has 28 days in every year
days_in_month_no_leap(year, month) ==
    IF month = 2 THEN 28
    ELSE IF month \in {4, 6, 9, 11} THEN 30
    ELSE 31

days_in_month(year, month) ==
    IF month = 2 THEN (IF is_leap(year) THEN 29 ELSE 28)
    ELSE IF month \in {4, 6, 9, 11} THEN 30
    ELSE 31

\* datetime(year, month, day) does not raise ValueError
valid_date(year, month, day) ==
    /\ year >= 1 /\ year <= 9999
    /\ month >= 1 /\ month <= 12
    /\ day >= 1 /\ day <= days_in_month(year, month)

\* int(s) for a string of digits
RECURSIVE int_of(_)
int_of(s) ==
    IF s = <<>> THEN 0
    ELSE 10 * int_of(SubSeq(s, 1, Len(s) - 1)) + DigitVal(s[Len(s)])

\* str(n) for n >= 0
RECURSIVE str_of(_)
str_of(n) ==
    IF n < 10 THEN <<Digits[n + 1]>>
    ELSE str_of(n \div 10) \o <<Digits[(n % 10) + 1]>>

\* '%02d' % n
pad2(n) == IF n < 10 THEN <<"0">> \o str_of(n) ELSE str_of(n)

\* self.date_pattern.search(filename): where the leftmost run of 8 digits starts, 0 if none
\* mutant: the search goes on to the first 8 digits that are a valid date
date_pattern_search_valid(filename) ==
    LET starts == {k \in 1..Len(filename) : DigitsAt(filename, k, 8)}
        dates == {k \in starts :
                    valid_date(int_of(SubSeq(filename, k, k + 3)),
                               int_of(SubSeq(filename, k + 4, k + 5)),
                               int_of(SubSeq(filename, k + 6, k + 7)))}
    IN  IF starts = {} THEN 0
        ELSE IF dates = {} THEN CHOOSE k \in starts : \A j \in starts : k <= j
        ELSE CHOOSE k \in dates : \A j \in dates : k <= j

date_pattern_search(filename) ==
    LET starts == {k \in 1..Len(filename) : DigitsAt(filename, k, 8)} IN
    IF starts = {} THEN 0 ELSE CHOOSE k \in starts : \A j \in starts : k <= j

\* f"Recording {date_obj.strftime('%B %d, %Y')}"
recording_title(year, month, day) ==
    <<"R", "e", "c", "o", "r", "d", "i", "n", "g", " ">> \o MonthNames[month]
        \o <<" ">> \o pad2(day) \o <<",", " ">> \o str_of(year)

\* _extract_date_based_title
extract_date_based_title(filename) ==
    LET k == date_pattern_search(filename) IN
    IF k = 0 THEN <<>>
    ELSE LET year == int_of(SubSeq(filename, k, k + 3))
             month == int_of(SubSeq(filename, k + 4, k + 5))
             day == int_of(SubSeq(filename, k + 6, k + 7))
         IN  IF valid_date(year, month, day)
             THEN recording_title(year, month, day)
             ELSE <<>>

\* title.replace('_', ' ').replace('-', ' ')
separators_to_spaces(s) ==
    [k \in 1..Len(s) |-> IF s[k] = "_" \/ s[k] = "-" THEN " " ELSE s[k]]

\* the end of the run of whitespace that starts at position k
RECURSIVE skip_spaces(_, _)
skip_spaces(s, k) ==
    IF k <= Len(s) /\ IsSpace(s[k]) THEN skip_spaces(s, k + 1) ELSE k

\* re.sub(r'\d{8}\s*\d{6}', '', title)
RECURSIVE remove_timestamps(_, _)
remove_timestamps(s, k) ==
    IF k > Len(s) THEN <<>>
    ELSE IF DigitsAt(s, k, 8) /\ DigitsAt(s, skip_spaces(s, k + 8), 6)
         THEN remove_timestamps(s, skip_spaces(s, k + 8) + 6)
         ELSE <<s[k]>> \o remove_timestamps(s, k + 1)

\* re.sub(r'\s+', ' ', title)
RECURSIVE normalize_whitespace(_, _)
normalize_whitespace(s, k) ==
    IF k > Len(s) THEN <<>>
    ELSE IF IsSpace(s[k])
         THEN <<" ">> \o normalize_whitespace(s, skip_spaces(s, k))
         ELSE <<s[k]>> \o normalize_whitespace(s, k + 1)

\* title.strip()
strip(s) ==
    LET keep == {k \in 1..Len(s) : ~IsSpace(s[k])} IN
    IF keep = {} THEN <<>>
    ELSE SubSeq(s, CHOOSE k \in keep : \A j \in keep : k <= j,
                   CHOOSE k \in keep : \A j \in keep : j <= k)

\* mutant: every word is capitalized
capitalize_first_words(s) ==
    [k \in 1..Len(s) |-> IF k = 1 \/ IsSpace(s[k - 1]) THEN upper(s[k]) ELSE s[k]]

\* title[0].upper() + title[1:]
capitalize_first(s) ==
    IF s = <<>> THEN s ELSE <<upper(s[1])>> \o SubSeq(s, 2, Len(s))

\* _clean_filename
clean_filename(filename) ==
    LET stem == rsplit_stem(filename)
        spaced == separators_to_spaces(stem)
        cut == remove_timestamps(spaced, 1)
        title == capitalize_first(strip(normalize_whitespace(cut, 1)))
    IN  IF title # <<>> THEN title ELSE filename

\* mutant: the date rule is tried before the title is looked at
generate_suggestion_date_first(metadata) ==
    LET filename == metadata.filename
        current_title == unwrap(metadata.title)
        suggested == extract_date_based_title(filename)
    IN  IF suggested # <<>> THEN suggested
        ELSE IF current_title # <<>> /\ ~is_generic_title(current_title, filename)
             THEN current_title
             ELSE clean_filename(filename)

\* generate_suggestion
generate_suggestion(metadata) ==
    LET filename == metadata.filename
        current_title == unwrap(metadata.title)
    IN  IF current_title # <<>> /\ ~is_generic_title(current_title, filename)
        THEN current_title
        ELSE LET suggested == extract_date_based_title(filename) IN
             IF suggested # <<>> THEN suggested
             ELSE clean_filename(filename)

\* mutant: the current title is the title tag alone
current_title_of_tag_only(metadata) ==
    unwrap(metadata.title)

\* metadata.get('title') or metadata.get('filename', '')
current_title_of(metadata) ==
    IF Truthy(metadata.title) THEN unwrap(metadata.title) ELSE metadata.filename

\* the files and title tags of the libraries given to the suggester
SuggestFilenames ==
    { <<"2", "0", "2", "4", "0", "3", "0", "4", "_", "1", "5", "3", "0", "0", "0",
        ".", "m", "4", "a">>,
      <<"m", "y", "-", "g", "r", "e", "a", "t", "_", "i", "d", "e", "a",
        ".", "m", "p", "3">>,
      <<"r", "e", "c", "1", ".", "m", "p", "3">>,
      <<"2", "0", "2", "3", "1", "3", "4", "5", ".", "m", "p", "3">>,
      <<"_", ".", "m", "p", "3">>,
      <<"I", "n", "t", "e", "r", "v", "i", "e", "w", ".", "m", "p", "3">> }

SuggestTitles ==
    { None, Some(<<>>), Some(<<"a", "b">>), Some(<<"r", "e", "c", "1">>),
      Some(<<"B", "a", "n", "d", " ", "M", "e", "e", "t", "i", "n", "g", " ",
             "N", "o", "t", "e", "s">>),
      Some(<<"2", "0", "2", "4", "0", "3", "0", "4", " ", "1", "5", "3", "0", "0", "0">>) }

SuggestRecords ==
    { [filename |-> n, file_path |-> path_join(DirM, n), title |-> t, artist |-> None] :
        n \in SuggestFilenames, t \in SuggestTitles }

\* a wider choice of file names and title tags for libraries of one record
WideFilenames ==
    SuggestFilenames \cup
    { <<"2", "0", "2", "4", "0", "2", "2", "9", ".", "m", "p", "3">>,
      <<"2", "0", "2", "3", "0", "2", "2", "9", ".", "m", "p", "3">>,
      <<"m", "e", "m", "o", "2", "0", "2", "4", "0", "3", "0", "4", ".", "w", "a", "v">>,
      <<"0", "0", "0", "0", "0", "3", "0", "4", ".", "m", "p", "3">>,
      <<"1", "2", "0", "2", "4", "0", "3", "0", "4", ".", "m", "p", "3">>,
      <<"2", "0", "2", "3", "1", "3", "4", "5", "_", "2", "0", "2", "4", "0", "3", "0", "4", ".", "m", "p", "3">>,
      <<"a", "_", "_", "b", ".", "m", "p", "3">>,
      <<"n", "_", "2", "0", "2", "3", "1", "3", "4", "5", "_", "_", "1", "5", "3", "0", "0", "0", "-", "x", ".", "m", "p", "3">>,
      <<"\t", "x", " ", " ", "y", "_", ".", "m", "p", "3">>,
      <<"a", "b", ".", "m", "p", "3">>,
      <<"2", "0", "2", "4", "0", "4", "3", "1", "-", "i", "d", "e", "a", ".", "f", "l", "a", "c">>,
      <<"a", ".", "b", ".", "m", "p", "3">> }

WideTitles ==
    SuggestTitles \cup
    { Some(<<"2", "0", "2", "4", "0", "3", "0", "4", "\t", "1", "5", "3", "0", "0", "0">>),
      Some(<<"2", "0", "2", "4", "0", "3", "0", "4", "1", "5", "3", "0", "0", "0", " ", "m", "i", "x">>),
      Some(<<"2", "0", "2", "4", "0", "3", "0", "4", "_", "1", "5", "3", "0", "0", "0">>),
      Some(<<"2", "0", "2", "4", "0", "3", "0", "4", "-", "1", "5", "3", "0", "0", "0">>),
      Some(<<"2", "0", "2", "4", "0", "3", "0", " ", "1", "5", "3", "0", "0", "0">>),
      Some(<<"2", "0", "2", "4", "0", "3", "0", "4", " ", " ", "1", "5", "3", "0", "0", "0">>),
      Some(<<"a", "b", "c">>),
      Some(<<"a", ".", "b">>),
      Some(<<"a", "\t", "b">>) }

WideRecords ==
    { [filename |-> n, file_path |-> path_join(DirM, n), title |-> t, artist |-> None] :
        n \in WideFilenames, t \in WideTitles }

\* a caller invokes get_suggestions_for_library(metadata_list): suggestions = []
\* (a first time, and once more after the suggestions were applied)
\* mutant: the list of suggestions is kept from the call before
get_suggestions_call_keeping ==
    /\ pc \in {"idle", "applied"}
    /\ suggestions' = suggestions
    /\ spos' = 0
    /\ pc' = IF pc = "idle" THEN "suggest" ELSE "resuggest"
    /\ UNCHANGED <<scanVars, disk, disk0, accessed, ret, raised, updaterVars, serverVars,
                   threads, metadata_list>>

get_suggestions_call ==
    /\ pc \in {"idle", "applied"}
    /\ suggestions' = <<>>
    /\ spos' = 0
    /\ pc' = IF pc = "idle" THEN "suggest" ELSE "resuggest"
    /\ UNCHANGED <<scanVars, disk, disk0, accessed, ret, raised, updaterVars, serverVars,
                   threads, metadata_list>>

\* mutant: a file name that already has a suggestion gets no second one
get_suggestions_step_unique_names ==
    /\ pc \in {"suggest", "resuggest"}
    /\ spos < Len(metadata_list)
    /\ LET metadata == metadata_list[spos + 1]
           current_title == current_title_of(metadata)
           suggested_title == generate_suggestion(metadata)
       IN  suggestions' =
               IF /\ suggested_title # current_title
                  /\ \A k \in DOMAIN suggestions :
                        suggestions[k].filename # metadata.filename
               THEN Append(suggestions,
                           [file_path |-> metadata.file_path,
                            filename |-> metadata.filename,
                            current_title |-> current_title,
                            suggested_title |-> suggested_title])
               ELSE suggestions
    /\ spos' = spos + 1
    /\ UNCHANGED <<scanVars, disk, disk0, accessed, pc, ret, raised, updaterVars, serverVars,
                   threads, metadata_list>>

\* one iteration of: for metadata in metadata_list
get_suggestions_step ==
    /\ pc \in {"suggest", "resuggest"}
    /\ spos < Len(metadata_list)
    /\ LET metadata == metadata_list[spos + 1]
           current_title == current_title_of(metadata)
           suggested_title == generate_suggestion(metadata)
       IN  suggestions' =
               IF suggested_title # current_title
               THEN Append(suggestions,
                           [file_path |-> metadata.file_path,
                            filename |-> metadata.filename,
                            current_title |-> current_title,
                            suggested_title |-> suggested_title])
               ELSE suggestions
    /\ spos' = spos + 1
    /\ UNCHANGED <<scanVars, disk, disk0, accessed, pc, ret, raised, updaterVars, serverVars,
                   threads, metadata_list>>

\* return suggestions
get_suggestions_return ==
    /\ pc \in {"suggest", "resuggest"}
    /\ spos = Len(metadata_list)
    /\ pc' = IF pc = "suggest" THEN "suggested" ELSE "resuggested"
    /\ UNCHANGED <<scanVars, disk, disk0, accessed, ret, raised, updaterVars, serverVars,
                   threads, suggestVars>>

\* mutant: the title a suggestion leaves on its record is the old one
applied_title_current(suggestion) ==
    suggestion.current_title

\* new_title of the update built from a suggestion: item['title'] = new_title
applied_title(suggestion) ==
    suggestion.suggested_title

\* the records after every suggestion was applied to the record it was made
\* for: suggestions are in record order, so the n-th one belongs to the next
\* record with its file_path and current title
RECURSIVE apply_from(_, _, _, _)
apply_from(meta, sugg, k, n) ==
    IF k > Len(meta) THEN meta
    ELSE IF /\ n <= Len(sugg)
            /\ sugg[n].file_path = meta[k].file_path
            /\ sugg[n].current_title = current_title_of(meta[k])
         THEN apply_from([meta EXCEPT ![k].title = Some(applied_title(sugg[n]))],
                         sugg, k + 1, n + 1)
         ELSE apply_from(meta, sugg, k + 1, n)

\* the caller applies all the suggestions it was given
apply_suggestions ==
    /\ pc = "suggested"
    /\ metadata_list' = apply_from(metadata_list, suggestions, 1, 1)
    /\ pc' = "applied"
    /\ UNCHANGED <<scanVars, disk, disk0, accessed, ret, raised, updaterVars, serverVars,
                   threads, spos, suggestions>>

InitSuggestWith(lists) ==
    /\ InitNoScan
    /\ disk = [f \in {} |-> None]
    /\ disk0 = disk
    /\ accessed = <<>>
    /\ pc = "idle"
    /\ ret = [success |-> FALSE, message |-> ""]
    /\ raised = FALSE
    /\ updates = <<>>
    /\ idx = 0
    /\ results = EmptyResults
    /\ config = None
    /\ audio_metadata = <<>>
    /\ request = NoRequest
    /\ response = NoResponse
    /\ selected_updates = <<>>
    /\ sidx = 0
    /\ sresults = EmptyServerResults
    /\ threads = NoThreads
    /\ metadata_list \in lists
    /\ spos = 0
    /\ suggestions = <<>>

InitSuggest == InitSuggestWith(SeqsUpTo(SuggestRecords, MaxRecords))

\* libraries of a single record
InitSuggestOne == InitSuggestWith({<<r>> : r \in WideRecords})

NextSuggest ==
    \/ get_suggestions_call
    \/ get_suggestions_step
    \/ get_suggestions_return
    \/ apply_suggestions

SpecSuggest == InitSuggest /\ [][NextSuggest]_vars

SpecSuggestOne == InitSuggestOne /\ [][NextSuggest]_vars

-----------------------------------------------------------------------------
(* Formatting of durations and sizes: lib/metadata_manager.py and peacock.py *)

\* A duration is None or Some(ms), ms its length in milliseconds; a size is
\* a byte count written in base 1024, lowest digit first (1 MB is <<0, 0, 1>>),
\* since sizes of a terabyte and more are beyond the integers of TLC.

\* MetadataManager._format_duration
lib_format_duration(seconds) ==
    IF seconds = None \/ seconds = Some(0) THEN <<"0", ":", "0", "0">>
    ELSE LET ms == seconds[1]
             hours == ms \div 3600000
             minutes == (ms % 3600000) \div 60000
             secs == (ms % 60000) \div 1000
         IN  IF hours > 0
             THEN str_of(hours) \o <<":">> \o pad2(minutes) \o <<":">> \o pad2(secs)
             ELSE str_of(minutes) \o <<":">> \o pad2(secs)

\* PeacockkMetadataExtractor.format_duration
format_duration(seconds) ==
    IF seconds = None THEN <<"U", "n", "k", "n", "o", "w", "n">>
    ELSE LET ms == seconds[1]
             hours == ms \div 3600000
             minutes == (ms % 3600000) \div 60000
             secs == (ms % 60000) \div 1000
         IN  IF hours > 0
             THEN pad2(hours) \o <<":">> \o pad2(minutes) \o <<":">> \o pad2(secs)
             ELSE pad2(minutes) \o <<":">> \o pad2(secs)

\* bytes_size < 1024.0 after k divisions by 1024.0
below_1024(bytes_size, k) ==
    \A i \in (k + 2)..Len(bytes_size) : bytes_size[i] = 0

\* the whole part of bytes_size after k divisions by 1024.0
RECURSIVE whole_part(_, _)
whole_part(bytes_size, k) ==
    IF k >= Len(bytes_size) THEN 0
    ELSE bytes_size[k + 1] + 1024 * whole_part(bytes_size, k + 1)

\* 100 times a base-1024 numeral, with one more digit
RECURSIVE times_100(_, _)
times_100(digits, carry) ==
    IF digits = <<>> THEN <<carry>>
    ELSE <<(100 * Head(digits) + carry) % 1024>>
            \o times_100(Tail(digits), (100 * Head(digits) + carry) \div 1024)

\* f"{bytes_size:.2f} {unit}" after k divisions: two decimals, ties to even
two_decimals(bytes_size, k, unit) ==
    LET n == IF k < Len(bytes_size) THEN k ELSE Len(bytes_size)
        scaled == times_100(SubSeq(bytes_size, 1, n), 0)
        hundredths == scaled[n + 1]
        more == n > 0 /\
                (\/ scaled[n] > 512
                 \/ scaled[n] = 512 /\ \E i \in 1..(n - 1) : scaled[i] # 0)
        tie == n > 0 /\ scaled[n] = 512 /\ \A i \in 1..(n - 1) : scaled[i] = 0
        shown == 100 * whole_part(bytes_size, k) + hundredths
                    + (IF more \/ (tie /\ hundredths % 2 = 1) THEN 1 ELSE 0)
    IN  str_of(shown \div 100) \o <<".">> \o pad2(shown % 100) \o <<" ">> \o unit

\* for unit in units: if bytes_size < 1024.0: return ...; bytes_size /= 1024.0
\* and after the loop: return in the last unit
format_size_in(bytes_size, units, last) ==
    LET stops == {k \in 0..(Len(units) - 1) : below_1024(bytes_size, k)} IN
    IF stops = {} THEN two_decimals(bytes_size, Len(units), last)
    ELSE LET k == CHOOSE k \in stops : \A j \in stops : k <= j
         IN  two_decimals(bytes_size, k, units[k + 1])

\* MetadataManager._format_size
lib_format_size(bytes_size) ==
    format_size_in(bytes_size,
                   << <<"B">>, <<"K", "B">>, <<"M", "B">>, <<"G", "B">>, <<"T", "B">> >>,
                   <<"P", "B">>)

\* PeacockkMetadataExtractor.format_size
format_size(bytes_size) ==
    format_size_in(bytes_size,
                   << <<"B">>, <<"K", "B">>, <<"M", "B">>, <<"G", "B">> >>,
                   <<"T", "B">>)

-----------------------------------------------------------------------------
(* scan_directory, step by step: lib/metadata_manager.py and peacock.py    *)

\* An entry of the walked tree is a directory or a file; a file says how
\* reading it ends ("ok"; "none": no supported container, File() returns
\* None; "open_error": File() raises; "stat_error": the file opens and
\* os.stat / os.path.getsize raises), and when it is read, its title tag,
\* audio.info.length (None: no such attribute) and its size.
DirEntry == [kind |-> "dir"]
FileEntry(reads, title, length, size) ==
    [kind |-> "file", reads |-> reads, title |-> title, length |-> length,
     size |-> size]

\* s.lower()
lower(s) ==
    [k \in 1..Len(s) |->
        IF \E j \in 1..Len(UpperCase) : UpperCase[j] = s[k]
        THEN LowerCase[CHOOSE j \in 1..Len(UpperCase) : UpperCase[j] = s[k]]
        ELSE s[k]]

\* the directory an entry lies in
dirname(p) == SubSeq(p, 1, Len(p) - Len(basename(p)) - 1)

\* os.listdir(directory): the names in the directory
listdir(t, directory) ==
    {basename(p) : p \in {q \in DOMAIN t : dirname(q) = abspath(directory)}}

\* os.path.isfile(path)
isfile(t, path) ==
    abspath(path) \in DOMAIN t /\ t[abspath(path)].kind = "file"

isdir(t, path) ==
    abspath(path) \in DOMAIN t /\ t[abspath(path)].kind = "dir"

\* the orders in which the elements of a set can be listed
RECURSIVE Orders(_)
Orders(S) ==
    IF S = {} THEN {<<>>}
    ELSE UNION {{<<x>> \o q : q \in Orders(S \ {x})} : x \in S}

\* os.walk(top), flattened to os.path.join(root, file) for the files of each
\* directory: the files of top in some order, then the walks of its
\* subdirectories in some order
RECURSIVE walk_orders(_, _)
RECURSIVE walk_each(_, _, _)
walk_each(t, top, dirs) ==
    IF dirs = <<>> THEN {<<>>}
    ELSE {a \o b : a \in walk_orders(t, path_join(top, Head(dirs))),
                   b \in walk_each(t, top, Tail(dirs))}

walk_orders(t, top) ==
    LET names == listdir(t, top)
        files == {n \in names : ~isdir(t, path_join(top, n))}
        dirs == {n \in names : isdir(t, path_join(top, n))}
    IN  {[k \in 1..Len(fs) |-> path_join(top, fs[k])] \o below :
            fs \in Orders(files),
            below \in UNION {walk_each(t, top, ds) : ds \in Orders(dirs)}}

\* mutant: the extension is compared as it is written
has_audio_extension_exact(file) ==
    suffix(file) \in audio_extensions

\* Path(file).suffix.lower() in self.AUDIO_EXTENSIONS
has_audio_extension(file) ==
    lower(suffix(file)) \in audio_extensions

\* [x for x in q if keep(x)]
RECURSIVE filter_audio(_)
filter_audio(q) ==
    IF q = <<>> THEN <<>>
    ELSE IF has_audio_extension(basename(Head(q)))
         THEN <<Head(q)>> \o filter_audio(Tail(q))
         ELSE filter_audio(Tail(q))

\* os.path.isfile(file_path), as the non-recursive scan asks it
is_listed_file(t, file_path) ==
    isfile(t, file_path)

\* the non-recursive enumeration of MetadataManager.scan_directory
RECURSIVE filter_listed(_, _, _)
filter_listed(t, directory, names) ==
    IF names = <<>> THEN <<>>
    ELSE LET file_path == path_join(directory, Head(names)) IN
         IF is_listed_file(t, file_path) /\ has_audio_extension(Head(names))
         THEN <<file_path>> \o filter_listed(t, directory, Tail(names))
         ELSE filter_listed(t, directory, Tail(names))

\* the lists of candidates the enumeration of a scan can end with
enumerations(t, call) ==
    IF call.impl = "lib" /\ ~call.recursive
    THEN {filter_listed(t, call.directory, names) :
            names \in Orders(listdir(t, call.directory))}
    ELSE {filter_audio(w) : w \in walk_orders(t, call.directory)}

\* the record both extractors build, as far as the model follows it
Record(file_path, entry, duration, duration_formatted, file_size_formatted) ==
    Some([filename |-> basename(file_path),
          file_path |-> file_path,
          title |-> entry.title,
          duration |-> duration,
          duration_formatted |-> duration_formatted,
          file_size |-> entry.size,
          file_size_formatted |-> file_size_formatted])

\* the try block of MetadataManager.extract_metadata
lib_extract_metadata_try(t, file_path) ==
    LET entry == t[abspath(file_path)] IN
    IF entry.reads \in {"open_error", "stat_error"} THEN [raised |-> TRUE, ret |-> None]
    ELSE IF entry.reads = "none" THEN [raised |-> FALSE, ret |-> None]
    ELSE LET length == IF entry.length = None THEN Some(0) ELSE entry.length IN
         [raised |-> FALSE,
          ret |-> Record(file_path, entry, length, lib_format_duration(length),
                         lib_format_size(entry.size))]

\* mutant: the except clause of extract_metadata re-raises
lib_extract_metadata_reraise(t, file_path) ==
    lib_extract_metadata_try(t, file_path)

\* MetadataManager.extract_metadata: try ... except Exception: return None
lib_extract_metadata(t, file_path) ==
    LET r == lib_extract_metadata_try(t, file_path) IN
    IF r.raised THEN [raised |-> FALSE, ret |-> None] ELSE r

\* PeacockkMetadataExtractor.extract_metadata
peacock_extract_metadata(t, file_path) ==
    LET entry == t[abspath(file_path)] IN
    IF entry.reads = "ok"
    THEN [raised |-> FALSE,
          ret |-> Record(file_path, entry, entry.length,
                         format_duration(entry.length), format_size(entry.size))]
    ELSE [raised |-> FALSE, ret |-> None]

\* the elements of a sequence
Range(q) == {q[k] : k \in DOMAIN q}

\* the order in which the loop of a scan takes the candidates:
\* enumerate(audio_files, 1) or enumerate(sorted(audio_files), 1)
processing_order(call, files) ==
    IF call.impl = "peacock" THEN sorted(Range(files)) ELSE files

\* the scans a caller can ask for
ScanRoot == DirM
ScanCalls ==
    {[impl |-> "lib", directory |-> ScanRoot, recursive |-> r] : r \in BOOLEAN}
        \cup {[impl |-> "peacock", directory |-> ScanRoot, recursive |-> TRUE]}

\* scan_directory is called: the candidates are enumerated
scan_directory_call ==
    /\ pc = "idle"
    /\ \E call \in ScanCalls :
          /\ scan_call' = call
          /\ IF call.impl = "lib" /\ ~call.recursive /\ ~exists(tree, call.directory)
             THEN \* os.listdir raises FileNotFoundError
                  /\ audio_files' = <<>>
                  /\ raised' = TRUE
                  /\ pc' = "raised"
             ELSE /\ IF ~exists(tree, call.directory)
                     THEN \* peacock.py returns []; os.walk yields nothing
                          audio_files' = <<>>
                     ELSE \E found \in enumerations(tree, call) : audio_files' = found
                  /\ raised' = raised
                  /\ pc' = "scan"
    /\ scan_idx' = 0
    /\ scanned' = <<>>
    /\ UNCHANGED <<tree, suggestVars, disk, disk0, accessed, ret,
                   updaterVars, serverVars, threads>>

\* one iteration of: for i, file_path in enumerate(...): extract, append
scan_directory_step ==
    /\ pc = "scan"
    /\ scan_idx < Len(audio_files)
    /\ LET file_path == processing_order(scan_call, audio_files)[scan_idx + 1]
           r == IF scan_call.impl = "lib" THEN lib_extract_metadata(tree, file_path)
                ELSE peacock_extract_metadata(tree, file_path)
       IN  IF r.raised
           THEN /\ raised' = TRUE
                /\ pc' = "raised"
                /\ UNCHANGED <<scan_idx, scanned>>
           ELSE /\ scanned' = IF r.ret # None THEN Append(scanned, r.ret[1])
                              ELSE scanned
                /\ scan_idx' = scan_idx + 1
                /\ UNCHANGED <<raised, pc>>
    /\ UNCHANGED <<tree, scan_call, audio_files, suggestVars, disk, disk0, accessed,
                   ret, updaterVars, serverVars, threads>>

\* return metadata_list
scan_directory_return ==
    /\ pc = "scan"
    /\ scan_idx = Len(audio_files)
    /\ pc' = "scanned"
    /\ UNCHANGED <<scanVars, suggestVars, disk, disk0, accessed, ret, raised,
                   updaterVars, serverVars, threads>>

\* the tree of the scans: files at three depths, an upper-case extension, a
\* file that is no audio file and a directory named like one
PlainFile(reads) == FileEntry(reads, None, Some(125000), <<0, 3>>)

ScanTrees ==
    LET name_a == <<"a", ".", "m", "p", "3">>
        name_b == <<"B", ".", "M", "P", "3">>
        name_n == <<"n", ".", "t", "x", "t">>
        name_s == <<"s">>
        name_c == <<"c", ".", "m", "4", "a">>
        name_t == <<"t">>
        name_d == <<"d", ".", "o", "g", "g">>
        name_x == <<"x", ".", "w", "a", "v">>
    IN
    {   path_join(ScanRoot, name_a) :> PlainFile(ra)
     @@ path_join(ScanRoot, name_b) :> PlainFile(rb)
     @@ path_join(ScanRoot, name_n) :> PlainFile("none")
     @@ path_join(ScanRoot, name_s) :> DirEntry
     @@ path_join(path_join(ScanRoot, name_s), name_c) :> PlainFile(rc)
     @@ path_join(path_join(ScanRoot, name_s), name_t) :> DirEntry
     @@ path_join(path_join(path_join(ScanRoot, name_s), name_t), name_d)
            :> PlainFile(rd)
     @@ path_join(ScanRoot, name_x) :> DirEntry :
        ra \in {"ok", "none", "open_error"}, rb \in {"ok", "none", "open_error"},
        rc \in {"ok", "open_error"}, rd \in {"ok", "stat_error"} }

InitScanWith(trees) ==
    /\ tree \in trees
    /\ scan_call = NoScanCall
    /\ audio_files = <<>>
    /\ scan_idx = 0
    /\ scanned = <<>>
    /\ disk = [f \in {} |-> None]
    /\ disk0 = disk
    /\ accessed = <<>>
    /\ pc = "idle"
    /\ ret = [success |-> FALSE, message |-> ""]
    /\ raised = FALSE
    /\ updates = <<>>
    /\ idx = 0
    /\ results = EmptyResults
    /\ metadata_list = <<>>
    /\ spos = 0
    /\ suggestions = <<>>
    /\ config = None
    /\ audio_metadata = <<>>
    /\ request = NoRequest
    /\ response = NoResponse
    /\ selected_updates = <<>>
    /\ sidx = 0
    /\ sresults = EmptyServerResults
    /\ threads = NoThreads

InitScan == InitScanWith(ScanTrees)

NextScan ==
    \/ scan_directory_call
    \/ scan_directory_step
    \/ scan_directory_return

SpecScan == InitScan /\ [][NextScan]_vars

\* audio.info.length of the files of the one-file trees, in milliseconds
\* (None: the attribute is missing): 0, half a second, up to 100 hours
LengthInputs ==
    {None} \cup {Some(ms) : ms \in {0, 500, 59999, 60000, 125000, 3599000,
                                    3600000, 3661000, 36000000, 360000000}}

\* st_size of those files: 0, 1023 B, 1 KB, 1152 B, 1 MB - 1 B, 1 MB, 5 GB,
\* 1 TB, 1023 TB, 1024 TB, 2000 TB
SizeInputs ==
    { <<0>>, <<1023>>, <<0, 1>>, <<128, 1>>, <<1023, 1023>>, <<0, 0, 1>>,
      <<0, 0, 0, 5>>, <<0, 0, 0, 0, 1>>, <<0, 0, 0, 0, 1023>>,
      <<0, 0, 0, 0, 0, 1>>, <<0, 0, 0, 0, 976, 1>> }

\* trees of a single readable file
OneFileTrees ==
    { path_join(ScanRoot, <<"a", ".", "m", "p", "3">>)
          :> FileEntry("ok", None, length, size) :
        length \in LengthInputs, size \in SizeInputs }

InitScanOne == InitScanWith(OneFileTrees)

SpecScanOne == InitScanOne /\ [][NextScan]_vars

\* trees in which the directory to scan does not exist
MissingRootTrees ==
    { [p \in {} |-> DirEntry],
      path_join(DirSibling, <<"a", ".", "m", "p", "3">>) :> PlainFile("ok") }

InitScanRoot == InitScanWith(ScanTrees \cup MissingRootTrees)

SpecScanRoot == InitScanRoot /\ [][NextScan]_vars

-----------------------------------------------------------------------------
(* peacock_server.py: generate_smart_title and the suggest_titles endpoint  *)

\* os.path.splitext(filename)[0], for a name without a directory part
splitext_stem(filename) ==
    LET dots == {k \in 1..Len(filename) : filename[k] = "."}
        last == CHOOSE k \in dots : \A j \in dots : j <= k
    IN  IF dots = {} THEN filename
        ELSE IF \A j \in 1..(last - 1) : filename[j] = "." THEN filename
        ELSE SubSeq(filename, 1, last - 1)

\* re.match(date_pattern, base_name): the position of the six digits of the
\* time of day, or 0 when the pattern does not match at the start
date_pattern_match(base_name) ==
    IF ~DigitsAt(base_name, 1, 8) THEN 0
    ELSE LET k == skip_spaces(base_name, 9) IN
         IF DigitsAt(base_name, k, 6) THEN k ELSE 0

\* f"Recording {year}-{month}-{day} at {hour}:{minute}"
recording_at(base_name, k) ==
    <<"R", "e", "c", "o", "r", "d", "i", "n", "g", " ">>
        \o SubSeq(base_name, 1, 4) \o <<"-">> \o SubSeq(base_name, 5, 6)
        \o <<"-">> \o SubSeq(base_name, 7, 8) \o <<" ", "a", "t", " ">>
        \o SubSeq(base_name, k, k + 1) \o <<":">> \o SubSeq(base_name, k + 2, k + 3)

\* ' '.join(word.capitalize() for word in clean_name.split())
capitalize_words(clean_name) ==
    LET joined == strip(normalize_whitespace(clean_name, 1)) IN
    [k \in 1..Len(joined) |->
        IF k = 1 \/ joined[k - 1] = " " THEN upper(joined[k])
        ELSE lower(<<joined[k]>>)[1]]

generate_smart_title(filename, metadata) ==
    LET base_name == splitext_stem(filename)
        k == date_pattern_match(base_name)
    IN  IF k # 0 THEN recording_at(base_name, k)
        ELSE IF Truthy(metadata.title) /\ unwrap(metadata.title) # base_name
        THEN unwrap(metadata.title)
        ELSE capitalize_words(separators_to_spaces(base_name))

\* for item in audio_metadata, from record k on
RECURSIVE suggest_titles_from(_, _)
suggest_titles_from(meta, k) ==
    IF k > Len(meta) THEN <<>>
    ELSE LET item == meta[k]
             original_title == IF Truthy(item.title) THEN unwrap(item.title)
                               ELSE item.filename
             suggested_title == generate_smart_title(item.filename, item)
         IN  (IF suggested_title # original_title
              THEN << [file_path |-> item.file_path,
                       filename |-> item.filename,
                       current_title |-> original_title,
                       suggested_title |-> suggested_title] >>
              ELSE <<>>) \o suggest_titles_from(meta, k + 1)

\* POST /api/suggest_titles
suggest_titles ==
    /\ pc \notin {"suggest", "resuggest"}
    /\ request' = [kind |-> "suggest_titles"]
    /\ response' = [status |-> 200,
                    suggestions |-> suggest_titles_from(audio_metadata, 1)]
    /\ UNCHANGED <<scanVars, disk, disk0, accessed, pc, ret, raised, updaterVars,
                   config, audio_metadata, selected_updates, sidx, sresults,
                   threads, suggestVars>>

\* file names that tell the endpoint's rules apart
EndpointFilenames ==
    WideFilenames \cup
    { <<"2", "0", "2", "4", "0", "3", "0", "4", " ", "1", "5", "3", "0", "0", "0", ".", "m", "4", "a">>,
      <<"2", "0", "2", "4", "0", "3", "0", "4", "1", "5", "3", "0", "0", "0", ".", "m", "4", "a">>,
      <<"M", "Y", "_", "v", "o", "i", "c", "e", "-", "m", "e", "m", "o", ".", "m", "p", "3">>,
      <<".", "m", "p", "3">>,
      <<"-", ".", "m", "4", "a">>,
      <<"2", "0", "2", "4", "1", "3", "4", "5", " ", "9", "9", "6", "1", "9", "9", "x", ".", "w", "a", "v">> }

EndpointRecords ==
    { [filename |-> n, file_path |-> path_join(DirM, n), title |-> t, artist |-> None] :
        n \in EndpointFilenames, t \in WideTitles }

\* records of two directories that hold the same file names
SharedNameRecords ==
    { [filename |-> n, file_path |-> path_join(d, n), title |-> t, artist |-> None] :
        n \in { <<"r", "e", "c", "1", ".", "m", "p", "3">>, <<"m", "y", "-", "g", "r", "e", "a", "t", "_", "i", "d", "e", "a", ".", "m", "p", "3">>,
                <<"I", "n", "t", "e", "r", "v", "i", "e", "w", ".", "m", "p", "3">> },
        t \in { None, Some(<<"B", "a", "n", "d", " ", "M", "e", "e", "t", "i", "n", "g", " ", "N", "o", "t", "e", "s">>) },
        d \in { DirM, DirSibling } }

\* the same records are the input of get_suggestions_for_library and the
\* mirror the endpoint reads
InitEndpoints ==
    /\ InitNoScan
    /\ disk = [f \in {} |-> None]
    /\ disk0 = disk
    /\ accessed = <<>>
    /\ pc = "idle"
    /\ ret = [success |-> FALSE, message |-> ""]
    /\ raised = FALSE
    /\ updates = <<>>
    /\ idx = 0
    /\ results = EmptyResults
    /\ config = None
    /\ metadata_list \in {<<r>> : r \in EndpointRecords}
                            \cup {<<q, r>> : q \in SharedNameRecords, r \in SharedNameRecords}
    /\ audio_metadata = metadata_list
    /\ request = NoRequest
    /\ response = NoResponse
    /\ selected_updates = <<>>
    /\ sidx = 0
    /\ sresults = EmptyServerResults
    /\ threads = NoThreads
    /\ spos = 0
    /\ suggestions = <<>>

NextEndpoints ==
    \/ NextSuggest
    \/ suggest_titles

SpecEndpoints == InitEndpoints /\ [][NextEndpoints]_vars

-----------------------------------------------------------------------------
(* peacock_server.py: serve_audio and open_audio                            *)

\* the percent escapes of the model's requests
Escapes ==
    ( <<"2", "E">> :> "." ) @@ ( <<"2", "e">> :> "." ) @@ ( <<"2", "0">> :> " " )

\* urllib.parse.unquote: an escape it cannot decode is left as it is
RECURSIVE unquote(_)
unquote(s) ==
    IF s = <<>> THEN <<>>
    ELSE IF Head(s) = "%" /\ Len(s) >= 3 /\ SubSeq(s, 2, 3) \in DOMAIN Escapes
         THEN <<Escapes[SubSeq(s, 2, 3)]>> \o unquote(SubSeq(s, 4, Len(s)))
         ELSE <<Head(s)>> \o unquote(Tail(s))

\* mutant: the last record of that name is taken
find_file_path_last(meta, filename) ==
    LET hits == {k \in DOMAIN meta : meta[k].filename = filename} IN
    IF hits = {} THEN None
    ELSE Some(meta[CHOOSE k \in hits : \A j \in hits : j <= k].file_path)

\* for item in audio_metadata: if item['filename'] == filename:
\*     file_path = item['file_path']; break
find_file_path(meta, filename) ==
    LET hits == {k \in DOMAIN meta : meta[k].filename = filename} IN
    IF hits = {} THEN None
    ELSE Some(meta[CHOOSE k \in hits : \A j \in hits : k <= j].file_path)

FileAccess(op, file_path) == [op |-> op, file_path |-> file_path]

\* the part the two handlers share: look the name up, test that the file
\* exists, test that it is under the configured directory
resolve(cfg, d, meta, filename) ==
    LET found == find_file_path(meta, filename)
        file_path == unwrap(found)
    IN  IF ~Truthy(found)
        THEN [status |-> 404, path |-> <<>>, calls |-> <<>>]
        ELSE IF ~exists(d, file_path)
        THEN [status |-> 404, path |-> <<>>,
              calls |-> <<FileAccess("exists", file_path)>>]
        ELSE IF ~within_base(cfg, file_path)
        THEN [status |-> 403, path |-> <<>>,
              calls |-> <<FileAccess("exists", file_path)>>]
        ELSE [status |-> 0, path |-> abspath(file_path),
              calls |-> <<FileAccess("exists", file_path)>>]

\* the names asked for
ServeRequests ==
    { NameA, NameB, NameC, <<"z", ".", "m", "p", "3">>,
      <<"a", "%", "2", "E", "m", "p", "3">>, <<"m", "/", "a", ".", "m", "p", "3">> }

\* GET /api/audio/<path:filename>
serve_audio ==
    /\ pc = "idle"
    /\ \E raw \in ServeRequests :
          LET r == resolve(config, disk, audio_metadata, unquote(raw)) IN
          /\ request' = [kind |-> "serve_audio", filename |-> raw]
          /\ IF r.status # 0
             THEN /\ response' = [status |-> r.status, path |-> <<>>]
                  /\ accessed' = r.calls
             ELSE /\ response' = [status |-> 200, path |-> r.path]
                  /\ accessed' = Append(r.calls, FileAccess("send", r.path))
    /\ pc' = "done"
    /\ UNCHANGED <<scanVars, suggestVars, disk, disk0, ret, raised, updaterVars,
                   config, audio_metadata, selected_updates, sidx, sresults, threads>>

\* GET /api/open/<path:filename>; the open command succeeds or fails
open_audio ==
    /\ pc = "idle"
    /\ \E raw \in ServeRequests, opened \in BOOLEAN :
          LET r == resolve(config, disk, audio_metadata, unquote(raw)) IN
          /\ request' = [kind |-> "open_audio", filename |-> raw]
          /\ IF r.status # 0
             THEN /\ response' = [status |-> r.status, path |-> <<>>]
                  /\ accessed' = r.calls
             ELSE /\ response' = IF opened THEN [status |-> 200, path |-> r.path]
                                 ELSE [status |-> 500, path |-> <<>>]
                  /\ accessed' = Append(r.calls, FileAccess("open", r.path))
    /\ pc' = "done"
    /\ UNCHANGED <<scanVars, suggestVars, disk, disk0, ret, raised, updaterVars,
                   config, audio_metadata, selected_updates, sidx, sresults, threads>>

\* the library was scanned at start-up; files may have been removed since
InitServe ==
    /\ InitNoScan
    /\ config \in Configs \cup {Some(Cwd)}
    /\ audio_metadata = scan_directory(ServerDisk, default_path(config))
    /\ \E present \in SUBSET DiskFiles :
          disk = [f \in present |-> ServerDisk[f]]
    /\ disk0 = disk
    /\ accessed = <<>>
    /\ pc = "idle"
    /\ ret = [success |-> FALSE, message |-> ""]
    /\ raised = FALSE
    /\ updates = <<>>
    /\ idx = 0
    /\ results = EmptyResults
    /\ request = NoRequest
    /\ response = NoResponse
    /\ selected_updates = <<>>
    /\ sidx = 0
    /\ sresults = EmptyServerResults
    /\ threads = NoThreads
    /\ metadata_list = <<>>
    /\ spos = 0
    /\ suggestions = <<>>

NextServe ==
    \/ serve_audio
    \/ open_audio

SpecServe == InitServe /\ [][NextServe]_vars

-----------------------------------------------------------------------------
(* Claims *)

\* the (path, title) pairs handed to the Tag Accessor, in call order
AttemptedInstructions ==
    [k \in 1..Len(accessed) |->
        Instruction(accessed[k].file_path, accessed[k].new_title)]

\* the title the calls made so far leave in file f: that of the last
\* successful write to f, and the title of the start when there is none
RECURSIVE LastWritten(_, _, _)
LastWritten(f, calls, k) ==
    IF k = 0 THEN disk0[f]
    ELSE IF calls[k].outcome = "ok" /\ abspath(calls[k].file_path) = f
         THEN Some(calls[k].new_title)
         ELSE LastWritten(f, calls, k - 1)

\* C1: when update_multiple_titles returns, success_count + failed_count
\* equals the number of instructions of its input, whichever writes failed.
C1_CountsSumToInstructions ==
    pc = "returned" =>
        results.success_count + results.failed_count = Len(updates)

C1_Witness ==
    /\ pc = "returned"
    /\ Len(updates) = 3
    /\ results.success_count = 2
    /\ results.failed_count = 1

\* C3: update_multiple_titles hands every instruction to update_title exactly
\* once and in input order; it never stops early (it returns only after the
\* last instruction, and no exception ends it), and every file holds the title
\* of the last write that succeeded on it, failures before or after it
\* notwithstanding.
C3_EveryInstructionOnceInOrder ==
    pc \in {"loop", "returned", "raised"} =>
        /\ pc # "raised"
        /\ Len(accessed) = idx
        /\ AttemptedInstructions = SubSeq(updates, 1, idx)
        /\ pc = "returned" => idx = Len(updates)
        /\ \A f \in DOMAIN disk : disk[f] = LastWritten(f, accessed, Len(accessed))

C3_Witness ==
    /\ pc = "returned"
    /\ Len(updates) = 3
    /\ accessed[1].outcome = "ok"
    /\ accessed[2].outcome = "save_error"
    /\ accessed[3].outcome = "ok"
    /\ updates[1].file_path # updates[3].file_path
    /\ disk[abspath(updates[1].file_path)] = Some(updates[1].new_title)
    /\ disk[abspath(updates[3].file_path)] = Some(updates[3].new_title)

\* C7: update_title and update_file_metadata turn every failure of the Tag
\* Accessor (open failure, no supported container, save failure) into a
\* failure value and let no exception out, so a batch is never aborted.
C7_FailureIsAValue ==
    /\ raised = FALSE
    /\ pc # "raised"
    /\ pc = "done" => (ret.success <=> accessed[1].outcome = "ok")
    /\ pc \in {"loop", "returned"} =>
          results.failed_count =
              Cardinality({k \in 1..Len(accessed) : accessed[k].outcome # "ok"})

C7_Witness ==
    /\ pc = "done"
    /\ accessed[1].outcome = "save_error"
    /\ ret = [success |-> FALSE, message |-> "save_error"]
    /\ raised = FALSE

\* the entry of a batch request has both fields
HasBothFields(update) ==
    /\ update.file_path # None /\ update.file_path # Some(<<>>)
    /\ update.new_title # None /\ update.new_title # Some(<<>>)

\* f is the configured root directory or lies below it
InsideRoot(cfg, f) ==
    /\ cfg # None /\ cfg # Some(<<>>)
    /\ LET root == abspath(cfg[1]) IN
       f = root \/ startswith(f, root \o <<"/">>)

\* the mirror is as the scan of the files at the start left it
MirrorAsScanned ==
    \A r \in DOMAIN audio_metadata :
        audio_metadata[r].title = disk0[abspath(audio_metadata[r].file_path)]

\* the Tag Accessor calls made by the step from the current state to the next
StepCalls ==
    IF pc = "idle" THEN accessed'
    ELSE SubSeq(accessed', Len(accessed) + 1, Len(accessed'))

\* C2: the response of apply_title_suggestions accounts for every entry of
\* updates: success_count + error_count = len(updates), and results has one
\* entry per entry of updates.
C2_EveryEntryAccounted ==
    (pc = "done" /\ request.kind = "apply_title_suggestions") =>
        /\ response.success_count + response.error_count = Len(selected_updates)
        /\ Len(response.results) = Len(selected_updates)

\* one step of the serving layer changes the mirror only after a write
C4_StepChangesMirrorOnlyAfterWrite ==
    /\ Len(audio_metadata') = Len(audio_metadata)
    /\ \A r \in DOMAIN audio_metadata :
          audio_metadata'[r].title # audio_metadata[r].title =>
              \E k \in DOMAIN StepCalls :
                  /\ StepCalls[k].outcome = "ok"
                  /\ abspath(StepCalls[k].file_path)
                         = abspath(audio_metadata[r].file_path)
                  /\ audio_metadata'[r].title = Some(StepCalls[k].new_title)
                  /\ disk'[abspath(StepCalls[k].file_path)]
                         = Some(StepCalls[k].new_title)
    /\ (\A k \in DOMAIN StepCalls : StepCalls[k].outcome # "ok") =>
          audio_metadata' = audio_metadata

\* a batch of three distinct files has returned, only the second write failed
C4_SecondOfThreeFails ==
    /\ pc = "done"
    /\ request.kind = "apply_title_suggestions"
    /\ Len(selected_updates) = 3
    /\ Len(accessed) = 3
    /\ Cardinality({abspath(accessed[k].file_path) : k \in 1..3}) = 3
    /\ accessed[1].outcome = "ok"
    /\ accessed[2].outcome # "ok"
    /\ accessed[3].outcome = "ok"

\* C4: in update_title and in every iteration of apply_title_suggestions the
\* title of a record of the mirror changes only to the title of a write to
\* that record's file that the Tag Accessor has just completed; a failed or
\* rejected instruction changes nothing in the mirror.  A batch of three
\* files of which only the second fails answers success_count 2 and
\* error_count 1 and leaves the second file's record as it was scanned.
C4_MirrorOnlyAfterConfirmedWrite ==
    /\ [][C4_StepChangesMirrorOnlyAfterWrite]_vars
    /\ [](C4_SecondOfThreeFails =>
            /\ response.success_count = 2
            /\ response.error_count = 1
            /\ \A r \in DOMAIN audio_metadata :
                  abspath(audio_metadata[r].file_path) = abspath(accessed[2].file_path)
                      => audio_metadata[r].title
                             = disk0[abspath(accessed[2].file_path)])

C4_Witness ==
    /\ C4_SecondOfThreeFails
    /\ config = Some(DirM)
    /\ audio_metadata[1].title = Some(TitleN1)
    /\ audio_metadata[2].file_path = accessed[2].file_path
    /\ audio_metadata[2].title = Some(TitleOld)
    /\ audio_metadata[3].title = Some(TitleN1)
    /\ response.success_count = 2
    /\ response.error_count = 1

\* C5: whenever a write of title t to file p was reported successful, the
\* mirror's record of p has the title that is on disk, however the root
\* directory and the request spelled their paths.
C5_MirrorConsistentWithDisk ==
    pc = "done" =>
        \A r \in DOMAIN audio_metadata :
            LET f == abspath(audio_metadata[r].file_path) IN
            (\E k \in DOMAIN accessed :
                accessed[k].outcome = "ok" /\ abspath(accessed[k].file_path) = f)
            => audio_metadata[r].title = disk[f]

\* C6: every file_path the serving layer hands to the Tag Accessor lies, once
\* canonical, inside the configured root directory.
C6_WritesStayInsideRoot ==
    \A k \in DOMAIN accessed : InsideRoot(config, abspath(accessed[k].file_path))

\* C8: a write request without file_path or new_title (absent or empty) never
\* reaches the Tag Accessor and changes no record: update_title answers 400,
\* and apply_title_suggestions passes to the Tag Accessor only entries that
\* have both fields.
C8_MissingFieldsRejected ==
    /\ (pc = "done" /\ request.kind = "update_title"
          /\ ~(HasBothFields(request))) =>
            /\ response.status = 400
            /\ accessed = <<>>
            /\ disk = disk0
            /\ MirrorAsScanned
    /\ request.kind = "apply_title_suggestions" =>
            /\ \A k \in DOMAIN accessed :
                  accessed[k].file_path # <<>> /\ accessed[k].new_title # <<>>
            /\ Len(accessed)
                  <= Cardinality({k \in 1..sidx : HasBothFields(selected_updates[k])})
            /\ (\A k \in 1..sidx : ~HasBothFields(selected_updates[k])) =>
                  (accessed = <<>> /\ disk = disk0 /\ MirrorAsScanned)

C8_Witness ==
    /\ pc = "done"
    /\ request.kind = "apply_title_suggestions"
    /\ Len(selected_updates) = 3
    /\ ~HasBothFields(selected_updates[2])
    /\ selected_updates[2].new_title = Some(<<>>)
    /\ Len(accessed) = 2
    /\ accessed[1].outcome = "ok"
    /\ accessed[2].outcome = "ok"

\* C9: concurrent requests are serialised, each request's write to the file
\* and its update of the mirror being one unit: once all requests have
\* finished, the record of every file that was written has the title that is
\* on disk.
C9_NoLostUpdate ==
    (\A t \in DOMAIN threads : threads[t].pc = "done") =>
        \A r \in DOMAIN audio_metadata :
            LET f == abspath(audio_metadata[r].file_path) IN
            (\E t \in DOMAIN threads :
                threads[t].status = 200 /\ threads[t].file_path = f)
            => audio_metadata[r].title = disk[f]

\* the records of the input for which a suggestion is due: those whose
\* suggestion differs from the title, or from the filename when there is no
\* (or an empty) title
DueRecords ==
    {k \in 1..Len(metadata_list) :
        generate_suggestion(metadata_list[k]) #
            (IF metadata_list[k].title # None /\ metadata_list[k].title # Some(<<>>)
             THEN metadata_list[k].title[1]
             ELSE metadata_list[k].filename)}

\* the n-th smallest element of a set of numbers
NthOf(S, n) == CHOOSE k \in S : Cardinality({j \in S : j < k}) = n - 1

\* C10: get_suggestions_for_library returns one suggestion for each record
\* whose suggestion differs from its current title (the title, or the
\* filename when the title is absent or empty) and none for any other
\* record; no suggestion has suggested_title equal to current_title.
C10_SuggestionIffDifferent ==
    /\ \A k \in DOMAIN suggestions :
          suggestions[k].suggested_title # suggestions[k].current_title
    /\ pc = "suggested" =>
          /\ Len(suggestions) = Cardinality(DueRecords)
          /\ \A n \in DOMAIN suggestions :
                LET metadata == metadata_list[NthOf(DueRecords, n)] IN
                /\ suggestions[n].file_path = metadata.file_path
                /\ suggestions[n].suggested_title = generate_suggestion(metadata)

C10_Witness ==
    /\ pc = "suggested"
    /\ Len(metadata_list) = 2
    /\ metadata_list[1].title = None
    /\ metadata_list[1].file_path # metadata_list[2].file_path
    /\ metadata_list[2].title # None
    /\ Len(suggestions) = 1
    /\ suggestions[1].file_path = metadata_list[2].file_path

\* C11: once every suggestion of get_suggestions_for_library has been applied
\* to its record (title := suggested_title), a second run over the collection
\* returns the empty sequence.
C11_ResuggestIsEmpty ==
    pc = "resuggested" => suggestions = <<>>

C11_Witness ==
    /\ pc = "resuggested"
    /\ Len(metadata_list) = 2
    /\ metadata_list[1].title = Some(clean_filename(metadata_list[1].filename))
    /\ metadata_list[1].title # Some(rsplit_stem(metadata_list[1].filename))
    /\ metadata_list[2].title = Some(extract_date_based_title(metadata_list[2].filename))
    /\ metadata_list[2].title # Some(<<>>)

\* the record has a title and the title is not generic
HasGoodTitle(metadata) ==
    /\ metadata.title # None
    /\ metadata.title # Some(<<>>)
    /\ ~is_generic_title(metadata.title[1], metadata.filename)

\* C12: generate_suggestion applies its rules in order, first match wins:
\* a present, non-generic title is returned unchanged whatever the filename
\* holds; otherwise the date rule decides when it matches; only otherwise the
\* cleaned filename is returned. A record with a present non-generic title
\* gets no entry from get_suggestions_for_library.
C12_RulesInOrder ==
    \A k \in DOMAIN metadata_list :
        LET metadata == metadata_list[k]
            dated == extract_date_based_title(metadata.filename)
        IN  /\ HasGoodTitle(metadata) =>
                  /\ generate_suggestion(metadata) = metadata.title[1]
                  /\ (pc \in {"suggest", "suggested"} /\ k <= spos) =>
                        ~\E n \in DOMAIN suggestions :
                            /\ suggestions[n].file_path = metadata.file_path
                            /\ suggestions[n].current_title = metadata.title[1]
            /\ (~HasGoodTitle(metadata) /\ dated # <<>>) =>
                  generate_suggestion(metadata) = dated
            /\ (~HasGoodTitle(metadata) /\ dated = <<>>) =>
                  generate_suggestion(metadata) = clean_filename(metadata.filename)

C12_Witness ==
    /\ pc = "suggested"
    /\ Len(metadata_list) = 2
    /\ HasGoodTitle(metadata_list[1])
    /\ extract_date_based_title(metadata_list[1].filename) # <<>>
    /\ ~HasGoodTitle(metadata_list[2])
    /\ date_pattern_search(metadata_list[2].filename) # 0
    /\ extract_date_based_title(metadata_list[2].filename) = <<>>
    /\ Len(suggestions) = 1
    /\ suggestions[1].suggested_title = clean_filename(metadata_list[2].filename)

\* the filename without its extension: what precedes its last '.'
ExtensionStripped(filename) ==
    IF \E k \in 1..Len(filename) : filename[k] = "."
    THEN SubSeq(filename, 1,
                (CHOOSE k \in 1..Len(filename) :
                    /\ filename[k] = "."
                    /\ \A j \in (k + 1)..Len(filename) : filename[j] # ".") - 1)
    ELSE filename

Whitespace == {" ", "\t", "\n"}

\* title starts with 8 digits, at most one separator out of seps, 6 digits
TimestampPrefix(title, seps) ==
    /\ Len(title) >= 14
    /\ \A j \in 1..8 : IsDigit(title[j])
    /\ \/ \A j \in 9..14 : IsDigit(title[j])
       \/ /\ Len(title) >= 15
          /\ title[9] \in seps
          /\ \A j \in 10..15 : IsDigit(title[j])

GenericAsStated(title, filename, seps) ==
    \/ title = ExtensionStripped(filename)
    \/ TimestampPrefix(title, seps)
    \/ Len(title) < 3

\* the records get_suggestions_for_library has gone through, on its first run
Processed ==
    IF pc \in {"suggest", "suggested"} THEN 1..spos ELSE {}

\* every processed record with a title was judged generic exactly in the
\* three stated cases, and its title was kept when it was not
GenericExactlyWhen(seps) ==
    \A k \in Processed :
        LET metadata == metadata_list[k] IN
        (metadata.title # None /\ metadata.title # Some(<<>>)) =>
            LET title == metadata.title[1]
                stated == GenericAsStated(title, metadata.filename, seps)
            IN  /\ is_generic_title(title, metadata.filename) <=> stated
                /\ ~stated => ~\E n \in DOMAIN suggestions :
                                  /\ suggestions[n].file_path = metadata.file_path
                                  /\ suggestions[n].current_title = title

\* C13 (as stated): is_generic(title, filename) is true exactly when title is
\* the filename with its extension stripped, or starts with 8 digits,
\* optionally one separator (space, '_' or '-'), then 6 digits, or has fewer
\* than 3 characters.
C13_GenericWithSpaceSeparator ==
    GenericExactlyWhen({" ", "_", "-"})

\* C13 (amended): the same, the optional separator being any whitespace
\* character, '_' or '-'.
C13_GenericWithWhitespaceSeparator ==
    GenericExactlyWhen(Whitespace \cup {"_", "-"})

C13_Witness ==
    /\ pc = "suggested"
    /\ metadata_list[1].title =
          Some(<<"2", "0", "2", "4", "0", "3", "0", "4", "\t", "1", "5", "3", "0", "0", "0">>)
    /\ metadata_list[1].filename = <<"r", "e", "c", "1", ".", "m", "p", "3">>
    /\ Len(suggestions) = 1
    /\ suggestions[1].suggested_title = <<"R", "e", "c", "1">>

\* where 8 consecutive digits start in the filename
Windows(filename) ==
    {k \in 1..Len(filename) :
        k + 7 <= Len(filename) /\ \A j \in k..(k + 7) : IsDigit(filename[j])}

\* the number a string of digits denotes
RECURSIVE NumberOf(_)
NumberOf(ds) ==
    IF ds = <<>> THEN 0
    ELSE 10 * NumberOf(SubSeq(ds, 1, Len(ds) - 1))
            + (CHOOSE v \in 0..9 : Digits[v + 1] = ds[Len(ds)])

\* the 8 digits at k, read as YYYYMMDD, are a date of the calendar
ValidCalendarDateAt(filename, k) ==
    LET y == NumberOf(SubSeq(filename, k, k + 3))
        m == NumberOf(SubSeq(filename, k + 4, k + 5))
        d == NumberOf(SubSeq(filename, k + 6, k + 7))
        leap == (y % 4 = 0 /\ y % 100 # 0) \/ y % 400 = 0
        length == <<31, IF leap THEN 29 ELSE 28, 31, 30, 31, 30, 31, 31, 30, 31, 30, 31>>
    IN  y >= 1 /\ m \in 1..12 /\ d >= 1 /\ d <= length[m]

\* digits without their leading zeros
RECURSIVE Unpadded(_)
Unpadded(ds) ==
    IF Len(ds) > 1 /\ ds[1] = "0" THEN Unpadded(Tail(ds)) ELSE ds

\* "Recording <Month name> <2-digit day>, <Year>" for the date at k
RecordingFor(filename, k) ==
    <<"R", "e", "c", "o", "r", "d", "i", "n", "g", " ">>
        \o MonthNames[NumberOf(SubSeq(filename, k + 4, k + 5))] \o <<" ">>
        \o SubSeq(filename, k + 6, k + 7) \o <<",", " ">>
        \o Unpadded(SubSeq(filename, k, k + 3))

\* the entries of suggestions made for a record
SuggestedFor(metadata) ==
    {suggestions[n].suggested_title : n \in
        {n \in DOMAIN suggestions :
            /\ suggestions[n].file_path = metadata.file_path
            /\ suggestions[n].current_title = current_title_of(metadata)}}

\* every processed record without a good title got the date title of one of
\* the candidate windows when one of them holds a date, and was given its
\* cleaned filename otherwise
DateRule(Candidates(_)) ==
    \A k \in Processed :
        LET metadata == metadata_list[k]
            filename == metadata.filename
            dated == {w \in Candidates(filename) : ValidCalendarDateAt(filename, w)}
        IN  ~HasGoodTitle(metadata) =>
              /\ dated # {} =>
                    \E w \in dated :
                        /\ generate_suggestion(metadata) = RecordingFor(filename, w)
                        /\ SuggestedFor(metadata) = {RecordingFor(filename, w)}
              /\ dated = {} =>
                    /\ generate_suggestion(metadata) = clean_filename(filename)
                    /\ SuggestedFor(metadata) \subseteq {clean_filename(filename)}

\* the leftmost 8 consecutive digits only
LeftmostWindow(filename) ==
    {w \in Windows(filename) : \A v \in Windows(filename) : w <= v}

\* C14 (as stated): for a record whose title is absent or generic, if the
\* filename contains 8 contiguous digits YYYYMMDD that form a valid calendar
\* date, the suggestion is "Recording <Month name> <2-digit day>, <Year>";
\* if the digits are no valid date, it is the cleaned filename.
C14_DateFromAnyRun ==
    DateRule(Windows)

\* C14 (amended): the same, for the leftmost 8 consecutive digits of the
\* filename: they alone decide whether the date rule matches.
C14_DateFromLeftmostRun ==
    DateRule(LeftmostWindow)

C14_Witness ==
    /\ pc = "suggested"
    /\ metadata_list[1].title = None
    /\ metadata_list[1].filename =
          <<"2", "0", "2", "4", "0", "2", "2", "9", ".", "m", "p", "3">>
    /\ Len(suggestions) = 1
    /\ suggestions[1].suggested_title =
          <<"R", "e", "c", "o", "r", "d", "i", "n", "g", " ",
            "F", "e", "b", "r", "u", "a", "r", "y", " ", "2", "9", ",", " ",
            "2", "0", "2", "4">>

\* the length of the timestamp that starts at k: 8 digits, a run of w
\* whitespace characters, 6 digits; 0 if none starts there
TimestampLengthAt(s, k) ==
    LET fits == {w \in 0..Len(s) :
                    /\ k + 13 + w <= Len(s)
                    /\ \A j \in k..(k + 7) : IsDigit(s[j])
                    /\ \A j \in (k + 8)..(k + 7 + w) : s[j] \in Whitespace
                    /\ \A j \in (k + 8 + w)..(k + 13 + w) : IsDigit(s[j])}
    IN  IF fits = {} THEN 0 ELSE 14 + CHOOSE w \in fits : TRUE

\* s without its timestamps, taken from the left
RECURSIVE WithoutTimestamps(_)
WithoutTimestamps(s) ==
    IF s = <<>> THEN s
    ELSE IF TimestampLengthAt(s, 1) > 0
         THEN WithoutTimestamps(SubSeq(s, TimestampLengthAt(s, 1) + 1, Len(s)))
         ELSE <<Head(s)>> \o WithoutTimestamps(Tail(s))

\* every run of whitespace replaced by one space
RECURSIVE Collapsed(_)
Collapsed(s) ==
    IF s = <<>> THEN s
    ELSE IF Head(s) \in Whitespace
         THEN IF Len(s) > 1 /\ s[2] \in Whitespace
              THEN Collapsed(Tail(s))
              ELSE <<" ">> \o Collapsed(Tail(s))
         ELSE <<Head(s)>> \o Collapsed(Tail(s))

RECURSIVE Trimmed(_)
Trimmed(s) ==
    IF s = <<>> THEN s
    ELSE IF Head(s) \in Whitespace THEN Trimmed(Tail(s))
    ELSE IF s[Len(s)] \in Whitespace THEN Trimmed(SubSeq(s, 1, Len(s) - 1))
    ELSE s

\* the cleaning rule as stated
CleanedAsStated(filename) ==
    LET stem == ExtensionStripped(filename)
        spaced == [k \in 1..Len(stem) |->
                      IF stem[k] \in {"_", "-"} THEN " " ELSE stem[k]]
        trimmed == Trimmed(Collapsed(WithoutTimestamps(spaced)))
        result == [k \in 1..Len(trimmed) |->
                      IF k = 1 THEN upper(trimmed[k]) ELSE trimmed[k]]
    IN  IF result = <<>> THEN filename ELSE result

\* C15: _clean_filename returns the filename with its extension stripped,
\* '_' and '-' replaced by spaces, embedded timestamps removed, whitespace
\* runs collapsed to one space, trimmed, and its first character (only)
\* upper-cased, or the filename itself if nothing is left; it is what a
\* record without a good title and without a date in its name is given.
C15_CleanFilenameAsStated ==
    \A k \in DOMAIN metadata_list :
        LET metadata == metadata_list[k]
            filename == metadata.filename
        IN  /\ clean_filename(filename) = CleanedAsStated(filename)
            /\ (k \in Processed /\ ~HasGoodTitle(metadata)
                    /\ extract_date_based_title(filename) = <<>>) =>
                  /\ generate_suggestion(metadata) = CleanedAsStated(filename)
                  /\ SuggestedFor(metadata) \subseteq {CleanedAsStated(filename)}
                  /\ CleanedAsStated(filename) # current_title_of(metadata) =>
                        SuggestedFor(metadata) # {}

C15_Witness ==
    /\ pc = "suggested"
    /\ metadata_list[1].title = None
    /\ metadata_list[1].filename =
          <<"n", "_", "2", "0", "2", "3", "1", "3", "4", "5", "_", "_",
            "1", "5", "3", "0", "0", "0", "-", "x", ".", "m", "p", "3">>
    /\ Len(suggestions) = 1
    /\ suggestions[1].suggested_title = <<"N", " ", "x">>

\* C16: the batch report returned to the client is {success_count,
\* failed_count, errors}: errors holds exactly one entry per failed
\* instruction, each with the instruction's file path, and no entry for a
\* successful instruction, so that it is as long as failed_count. Stated of
\* the response of POST /api/apply_title_suggestions, whatever name the
\* failure counter and the list of entries go by.
C16_ReportListsExactlyTheFailures ==
    (pc = "done" /\ request.kind = "apply_title_suggestions") =>
        /\ "success_count" \in DOMAIN response
        /\ \E count \in {"failed_count", "error_count"} \cap DOMAIN response,
              errors \in {"errors", "results"} \cap DOMAIN response :
              /\ Len(response[errors]) = response[count]
              /\ \A n \in DOMAIN response[errors] :
                    LET entry == response[errors][n] IN
                    /\ {"file", "file_path"} \cap DOMAIN entry # {}
                    /\ {"error", "message"} \cap DOMAIN entry # {}
                    /\ "success" \in DOMAIN entry => ~entry.success

\* the candidates of q whose extraction succeeds, in the order of q
RECURSIVE ReadableOf(_)
ReadableOf(q) ==
    IF q = <<>> THEN <<>>
    ELSE IF tree[Head(q)].reads = "ok"
         THEN <<Head(q)>> \o ReadableOf(Tail(q))
         ELSE ReadableOf(Tail(q))

\* the candidates in the order the running scan takes them
Taken == IF scan_call.impl = "peacock" THEN sorted(Range(audio_files)) ELSE audio_files

\* C17: a scan never fails because of one file: a candidate whose extraction
\* fails gives no record and the scan goes on to the next one; the records
\* are exactly those of the candidates extracted successfully, one each, in
\* the order the candidates were processed.
C17_ScanSkipsFailedFiles ==
    /\ pc # "raised"
    /\ pc \in {"scan", "scanned"} =>
          LET done == ReadableOf(SubSeq(Taken, 1, scan_idx)) IN
          /\ Len(scanned) = Len(done)
          /\ \A k \in DOMAIN scanned : scanned[k].file_path = done[k]
    /\ pc = "scanned" => scan_idx = Len(audio_files)

C17_Witness ==
    /\ pc = "scanned"
    /\ scan_call.impl = "lib"
    /\ Len(audio_files) = 4
    /\ tree[audio_files[1]].reads = "open_error"
    /\ tree[audio_files[2]].reads = "none"
    /\ tree[audio_files[3]].reads = "ok"
    /\ tree[audio_files[4]].reads = "stat_error"
    /\ Len(scanned) = 1
    /\ scanned[1].file_path = audio_files[3]

\* what follows the last '.' of a name, in lower case; nothing for a name
\* without a '.' after its first character
ExtensionOf(name) ==
    LET dots == {k \in 2..Len(name) : name[k] = "."} IN
    IF dots = {} THEN <<>>
    ELSE LET last == CHOOSE k \in dots : \A j \in dots : j <= k IN
         [k \in 1..(Len(name) - last) |->
             LET c == name[last + k] IN
             IF \E j \in 1..26 : UpperCase[j] = c
             THEN LowerCase[CHOOSE j \in 1..26 : UpperCase[j] = c]
             ELSE c]

AllowList ==
    { <<"m", "4", "a">>, <<"m", "p", "3">>, <<"w", "a", "v">>, <<"a", "a", "c">>,
      <<"f", "l", "a", "c">>, <<"o", "g", "g">>, <<"m", "4", "v">>,
      <<"o", "p", "u", "s">> }

\* the files the scan has to consider
Expected ==
    {p \in DOMAIN tree :
        /\ tree[p].kind = "file"
        /\ ExtensionOf(basename(p)) \in AllowList
        /\ IF scan_call.recursive
           THEN startswith(p, scan_call.directory \o <<"/">>)
           ELSE \E n \in 1..Len(p) : p = scan_call.directory \o <<"/">> \o SubSeq(p, n, Len(p))
                                      /\ \A j \in n..Len(p) : p[j] # "/"}

\* C18: the candidates of scan(root, recursive) are exactly the files whose
\* extension, compared case-insensitively, is in the allow-list: at any
\* depth under root when recursive, the direct children of root otherwise.
C18_CandidatesAreTheAudioFiles ==
    pc \in {"scan", "scanned"} =>
        /\ Range(audio_files) = Expected
        /\ Len(audio_files) = Cardinality(Expected)

C18_Witness ==
    /\ pc = "scanned"
    /\ scan_call.impl = "lib"
    /\ ~scan_call.recursive
    /\ Range(audio_files) =
          {path_join(ScanRoot, <<"a", ".", "m", "p", "3">>),
           path_join(ScanRoot, <<"B", ".", "M", "P", "3">>)}
    /\ Len(scanned) = 2

TwoDigits(n) == <<Digits[(n \div 10) + 1], Digits[(n % 10) + 1]>>

\* the duration text as stated, for a length in milliseconds or None:
\* "0:00" for none or zero, else H:MM:SS or M:SS for the hours, minutes and
\* seconds h, m, s with m, s below 60 that make up the whole seconds
DurationAsStated(length) ==
    IF length = None \/ length = Some(0) THEN {<<"0", ":", "0", "0">>}
    ELSE LET whole == length[1] \div 1000 IN
         { IF h > 0
           THEN str_of(h) \o <<":">> \o TwoDigits(m) \o <<":">> \o TwoDigits(sec)
           ELSE str_of(m) \o <<":">> \o TwoDigits(sec) :
             <<h, m, sec>> \in {t \in (0..(whole \div 3600)) \X (0..59) \X (0..59) :
                                  3600 * t[1] + 60 * t[2] + t[3] = whole} }

\* C19: duration_formatted of every record is format_duration of the file's
\* duration: "0:00" for 0 or an absent duration, else "H:MM:SS" (hours
\* unpadded) when hours > 0 and "M:SS" (minutes unpadded) otherwise.
C19_DurationFormattedAsStated ==
    \A k \in DOMAIN scanned :
        scanned[k].duration_formatted
            \in DurationAsStated(tree[scanned[k].file_path].length)

\* the unit a size text ends with
UnitOf(text) ==
    LET sp == CHOOSE k \in 1..Len(text) : text[k] = " " IN
    SubSeq(text, sp + 1, Len(text))

\* how many times a byte count has to be divided by 1024 to get below 1024
StepsBelow1024(size) ==
    LET used == {k \in 1..Len(size) : size[k] # 0} IN
    IF used = {} THEN 0 ELSE (CHOOSE k \in used : \A j \in used : j <= k) - 1

\* C20: file_size_formatted of every record is in the first unit of B, KB,
\* MB, GB, TB at which the size, divided by 1024 once per step, is below
\* 1024, and in TB for every size of 1024 TB or more.
C20_SizeUnitAsStated ==
    \A k \in DOMAIN scanned :
        LET units == << <<"B">>, <<"K", "B">>, <<"M", "B">>, <<"G", "B">>, <<"T", "B">> >>
            steps == StepsBelow1024(tree[scanned[k].file_path].size)
        IN  UnitOf(scanned[k].file_size_formatted)
                = units[IF steps < 4 THEN steps + 1 ELSE 5]

\* the records a step has changed
ChangedRecords ==
    {r \in DOMAIN audio_metadata : audio_metadata'[r] # audio_metadata[r]}

C21_StepChangesOneTitle ==
    /\ Len(audio_metadata') = Len(audio_metadata)
    /\ Cardinality(ChangedRecords) <= 1
    /\ \A r \in ChangedRecords :
          /\ \E k \in DOMAIN StepCalls :
                StepCalls[k].file_path = audio_metadata[r].file_path
          /\ \A field \in DOMAIN audio_metadata[r] \ {"title"} :
                audio_metadata'[r][field] = audio_metadata[r][field]
          /\ DOMAIN audio_metadata'[r] = DOMAIN audio_metadata[r]

\* C21: update_title and each iteration of apply_title_suggestions change at
\* most one record of audio_metadata, the one whose file_path is the
\* instruction's path, and only its title; the other fields, the other
\* records, and the length and order of the collection stay as they were.
C21_UpdateChangesOneTitleOnly ==
    [][C21_StepChangesOneTitle]_vars

C21_Witness ==
    /\ pc = "done"
    /\ request.kind = "apply_title_suggestions"
    /\ Len(audio_metadata) = 3
    /\ audio_metadata[1].title = Some(TitleN2)
    /\ audio_metadata[2].title = Some(TitleOld)
    /\ audio_metadata[3].title = Some(TitleN1)
    /\ \A r \in 1..3 : audio_metadata[r].artist = None

\* C22: on the same records, the suggest_titles endpoint returns the same
\* sequence of suggestions, with the same suggested_title per record, as
\* get_suggestions_for_library.
C22_EndpointSuggestsAsLibrary ==
    (pc = "suggested" /\ request.kind = "suggest_titles")
        => response.suggestions = suggestions

\* what a call on the given records returns when nothing is remembered
RECURSIVE FreshSuggestions(_)
FreshSuggestions(list) ==
    IF list = <<>> THEN <<>>
    ELSE LET metadata == Head(list) IN
         (IF generate_suggestion(metadata) # current_title_of(metadata)
          THEN << [file_path |-> metadata.file_path,
                   filename |-> metadata.filename,
                   current_title |-> current_title_of(metadata),
                   suggested_title |-> generate_suggestion(metadata)] >>
          ELSE <<>>) \o FreshSuggestions(Tail(list))

\* a step of the suggester or of the endpoint: any step but the caller's
\* writing of the suggested titles into its records
SuggesterStep == ~(pc = "suggested" /\ pc' = "applied")

C23_StepReadsOnly ==
    /\ SuggesterStep => /\ metadata_list' = metadata_list
                        /\ audio_metadata' = audio_metadata
    /\ pc' \in {"suggested", "resuggested"} =>
          suggestions' = FreshSuggestions(metadata_list')

\* C23: get_suggestions_for_library and suggest_titles leave every record and
\* the collection as they were, and a call's result depends on its input
\* only: nothing of an earlier call is in it.
C23_SuggesterReadsOnlyAndKeepsNothing ==
    [][C23_StepReadsOnly]_vars

C23_Witness ==
    /\ pc = "resuggested"
    /\ suggestions = <<>>
    /\ metadata_list # audio_metadata
    /\ request.kind = "suggest_titles"
    /\ response.suggestions # <<>>

\* the positions of the records whose suggestion differs from their title
Emitting ==
    {k \in 1..Len(metadata_list) :
        generate_suggestion(metadata_list[k]) # current_title_of(metadata_list[k])}

\* the n-th of them, counted from the front of the input
NthEmitting(n) ==
    CHOOSE r \in Emitting : Cardinality({j \in Emitting : j <= r}) = n

\* C24: the suggestions of get_suggestions_for_library are in the order of
\* their records in the input, one per record that has one: two records with
\* the same file name in different directories each get their own, under
\* their own file_path.
C24_OneSuggestionPerRecordInInputOrder ==
    pc = "suggested" =>
        /\ Len(suggestions) = Cardinality(Emitting)
        /\ \A n \in 1..Len(suggestions) :
              /\ suggestions[n].file_path = metadata_list[NthEmitting(n)].file_path
              /\ suggestions[n].filename = metadata_list[NthEmitting(n)].filename
              /\ suggestions[n].suggested_title =
                     generate_suggestion(metadata_list[NthEmitting(n)])

C24_Witness ==
    /\ pc = "suggested"
    /\ Len(metadata_list) = 2
    /\ Len(suggestions) = 2
    /\ suggestions[1].filename = suggestions[2].filename
    /\ startswith(suggestions[1].file_path, DirSibling \o <<"/">>)
    /\ startswith(suggestions[2].file_path, DirM \o <<"/">>)

\* the numeral before the decimal point of a rendered size
WholeNumeral(text) ==
    LET dot == CHOOSE k \in 1..Len(text) : text[k] = "." IN
    int_of(SubSeq(text, 1, dot - 1))

\* how many times the unit of a rendered size has advanced from B
UnitSteps(text) ==
    LET units == << <<"B">>, <<"K", "B">>, <<"M", "B">>, <<"G", "B">>, <<"T", "B">>,
                    <<"P", "B">> >>
    IN  (CHOOSE k \in 1..Len(units) : units[k] = UnitOf(text)) - 1

\* C25: the number a rendered size shows with its two decimals is in
\* [0, 1024) unless the unit is the last one, and the unit has advanced only
\* past values that were not below 1024.
C25_ShownSizeBelow1024 ==
    \A k \in DOMAIN scanned :
        LET text == scanned[k].file_size_formatted IN
        /\ UnitSteps(text) < 4 => WholeNumeral(text) < 1024
        /\ UnitSteps(text) <= StepsBelow1024(tree[scanned[k].file_path].size)

\* C26: a scan fails as a whole exactly when its root directory does not
\* exist, in the recursive and in the non-recursive mode alike; a file that
\* cannot be read never makes it fail.
C26_ScanFailsExactlyOnMissingRoot ==
    pc \in {"scan", "scanned", "raised"} =>
        (pc = "raised" <=> ~exists(tree, scan_call.directory))

\* the positions of the records whose file name is the one asked for
NamedAsRequested ==
    {k \in DOMAIN audio_metadata :
        audio_metadata[k].filename = unquote(request.filename)}

FirstNamedAsRequested ==
    audio_metadata[CHOOSE k \in NamedAsRequested : \A j \in NamedAsRequested : k <= j]

\* C27: serve_audio and open_audio take the first record, in the order of
\* the collection, whose filename is the requested one: no other record's
\* file is ever looked at or served, and a name no record has is answered
\* with 404 and no access to any file.
C27_FirstRecordOfThatNameIsServed ==
    (pc = "done" /\ request.kind \in {"serve_audio", "open_audio"}) =>
        IF NamedAsRequested = {}
        THEN response.status = 404 /\ accessed = <<>>
        ELSE /\ \A k \in DOMAIN accessed :
                  abspath(accessed[k].file_path)
                      = abspath(FirstNamedAsRequested.file_path)
             /\ response.status = 200 =>
                  response.path = abspath(FirstNamedAsRequested.file_path)

C27_Witness ==
    /\ pc = "done"
    /\ request.kind = "serve_audio"
    /\ Cardinality(NamedAsRequested) = 2
    /\ response.status = 200
    /\ response.path = FileA
    /\ FileS \in DOMAIN disk

\* a suggestion the batch-apply endpoint would take: its new_title is truthy
Applicable(suggestion) ==
    suggestion.filename # <<>> => suggestion.suggested_title # <<>>

\* the library's suggestions are all of that kind
LibrarySuggestionsApplicable ==
    \A k \in DOMAIN suggestions : Applicable(suggestions[k])

\* C28: for a record with a non-empty filename the suggested_title of the
\* library and of the suggest_titles endpoint is a non-empty string, one that
\* apply_title_suggestions does not skip as a missing new_title.
C28_SuggestedTitleNotEmpty ==
    /\ LibrarySuggestionsApplicable
    /\ request.kind = "suggest_titles" =>
          \A k \in DOMAIN response.suggestions : Applicable(response.suggestions[k])

\* the writes of the batch that succeeded, as positions in the call order
SucceededWrites == {k \in DOMAIN accessed : accessed[k].outcome = "ok"}

\* the title of the last instruction for that file that succeeded
TitleOfLastSuccess(file_path) ==
    LET mine == {k \in SucceededWrites : accessed[k].file_path = file_path}
    IN  accessed[CHOOSE k \in mine : \A j \in mine : j <= k].new_title

\* the instructions of the batch for that file, and the entries reported
InstructionsFor(file_path) ==
    {k \in DOMAIN selected_updates :
        /\ selected_updates[k].file_path # None
        /\ abspath(unwrap(selected_updates[k].file_path)) = file_path}

ReportedFor(file_path) ==
    {k \in DOMAIN sresults.results : sresults.results[k].file_path = file_path}

\* C29: the instructions of a batch for one file are applied in input order
\* and counted one by one; after the batch the file and its record in
\* audio_metadata both have the new_title of the last of them that succeeded.
C29_LastSuccessfulInstructionWins ==
    (pc = "done" /\ request.kind = "apply_title_suggestions") =>
        /\ \A k \in DOMAIN selected_updates :
              selected_updates[k].file_path # None =>
                 LET file_path == abspath(unwrap(selected_updates[k].file_path))
                 IN  Cardinality(ReportedFor(file_path))
                        = Cardinality(InstructionsFor(file_path))
        /\ \A w \in SucceededWrites :
              LET file_path == accessed[w].file_path IN
              /\ disk[file_path] = Some(TitleOfLastSuccess(file_path))
              /\ \A r \in DOMAIN audio_metadata :
                    abspath(audio_metadata[r].file_path) = file_path =>
                       audio_metadata[r].title = Some(TitleOfLastSuccess(file_path))

\* the leftmost 8 consecutive digits of the filename are no calendar date
LeftmostIsNoDate(filename) ==
    /\ Windows(filename) # {}
    /\ \A w \in LeftmostWindow(filename) : ~ValidCalendarDateAt(filename, w)

\* a window further right, overlapping the leftmost one or apart from it,
\* that holds a calendar date
LaterDates(filename) ==
    {w \in Windows(filename) \ LeftmostWindow(filename) :
        ValidCalendarDateAt(filename, w)}

\* C30: when the leftmost 8 consecutive digits of the filename are not a
\* valid date, a record without a good title gets its cleaned filename and
\* no date title, whatever dates the windows further right hold.
C30_OnlyLeftmostWindowDecides ==
    \A k \in Processed :
        LET metadata == metadata_list[k]
            filename == metadata.filename
        IN  (~HasGoodTitle(metadata) /\ LeftmostIsNoDate(filename)) =>
              /\ generate_suggestion(metadata) = CleanedAsStated(filename)
              /\ SuggestedFor(metadata) \subseteq {CleanedAsStated(filename)}
              /\ \A w \in LaterDates(filename) :
                    RecordingFor(filename, w) \notin SuggestedFor(metadata)

C30_Witness ==
    /\ pc = "suggested"
    /\ ~HasGoodTitle(metadata_list[1])
    /\ LeftmostIsNoDate(metadata_list[1].filename)
    /\ \E w \in LaterDates(metadata_list[1].filename) :
          \E v \in LeftmostWindow(metadata_list[1].filename) : w < v + 8
    /\ Len(suggestions) = 1
    /\ suggestions[1].suggested_title = CleanedAsStated(metadata_list[1].filename)

=============================================================================
